---- MODULE Spec2Model ----
(***************************************************************************)
(* Turn engine of solar-logistics (src/lib/gameLogic.ts) with the distance *)
(* model of the optimizer and the static catalog it is seeded from.        *)
(*                                                                         *)
(* Numbers.  The program computes in IEEE doubles; the model carries each  *)
(* quantity as an integer of a fixed unit:                                 *)
(*   budget, income, expenses, cost, stock   credits / tons (integers in   *)
(*                                            the program as well)         *)
(*   orbitalRadius                           centi-AU                      *)
(*   currentAngle                            milli-degrees                 *)
(*   distance                                milli-AU                      *)
(*   travelTime                              milli-months                  *)
(*   satisfaction                            1/Scale of a percent          *)
(*   score fields                            tenths (they are rounded to   *)
(*                                            one decimal by the program)  *)
(*   difficulty multipliers                  tenths                        *)
(***************************************************************************)
EXTENDS Integers, Sequences, FiniteSets, TLC

VARIABLES
  gameState,    \* the GameState snapshot the page holds (useState in page.tsx)
  thrown,       \* message of the Error the last call threw, "none" if it returned
  routeSeq,     \* number of route ids handed out so far (ids are unique strings)
  ledger,       \* per route id: the route as created and the number of advanceTurn
                \* calls made before its creation
  calls,        \* number of advanceTurn calls so far
  ops,          \* number of buildDepot / createRoute / autoSupply calls so far
                \* that returned a state different from their argument
  optimizer     \* the call of lib/optimizer.ts in progress: its arguments, its
                \* local variables and its position

vars == <<gameState, thrown, routeSeq, ledger, calls, ops, optimizer>>

----------------------------------------------------------------------------
(* Bounds of the model *)

NumColonies == 2    \* the first NumColonies entries of initialColonies
NumSites == 2       \* the first NumSites entries of buildableSites
MaxCalls == 4       \* advanceTurn calls explored from a new game
MaxOps == 2         \* state-changing player operations explored from a new game
MaxSavedCalls == 2  \* advanceTurn calls explored from a loaded game
MaxSavedOps == 1    \* state-changing player operations explored from a loaded game
MaxLongCalls == 13  \* advanceTurn calls explored in a long game
MaxLongOps == 2     \* state-changing player operations explored in a long game
MaxOpTurn == 1      \* turns of a long game in which the player acts
MaxFullCalls == 121 \* turns of a whole game
MaxFullOps == 2     \* depots built before the first turn of a whole game
MaxColonies == 4    \* colonies passed to the optimizer
MaxCandidates == 4  \* candidate sites passed to the optimizer
MaxDepots == 3      \* maxDepots of greedyFacilityLocation, p of pMedianOptimization
MaxIterations == 2  \* maxIterations of pMedianOptimization
MaxYears == 1       \* years of play before the optimizer is called

----------------------------------------------------------------------------
(* Arithmetic helpers *)

Scale == 1000

Max(a, b) == IF a >= b THEN a ELSE b
Min(a, b) == IF a <= b THEN a ELSE b
Abs(a) == IF a >= 0 THEN a ELSE -a

\* Math.round(n / d) for d > 0: the nearest integer, halves towards +infinity
Round(n, d) == (2 * n + d) \div (2 * d)

\* Math.ceil(n / d) for d > 0
Ceil(n, d) == -((-n) \div d)

RECURSIVE SqrtIter(_, _)
SqrtIter(n, x) ==
  LET y == (x + n \div x) \div 2
  IN IF y >= x THEN x ELSE SqrtIter(n, y)

\* floor of Math.sqrt(n)
Sqrt(n) == IF n <= 0 THEN 0 ELSE SqrtIter(n, n)

\* 10^4 * Math.cos of an angle of b milli-degrees, 0 <= b <= 90000 (Taylor, Horner form)
CosQuadrant(b) ==
  LET x == (b * 17453) \div 100000        \* radians * 10^4
      y == (x * x) \div 10000             \* radians^2 * 10^4
      t5 == 10000 - y \div 90
      t4 == 10000 - (y * t5) \div 560000
      t3 == 10000 - (y * t4) \div 300000
      t2 == 10000 - (y * t3) \div 120000
  IN 10000 - (y * t2) \div 20000

\* 10^4 * Math.cos of an angle of a milli-degrees, a >= 0
Cos(a) ==
  LET m == a % 360000
      f == IF m > 180000 THEN 360000 - m ELSE m
  IN IF f > 90000 THEN -CosQuadrant(180000 - f) ELSE CosQuadrant(f)

RECURSIVE SumSeq(_)
SumSeq(s) == IF s = <<>> THEN 0 ELSE Head(s) + SumSeq(Tail(s))

RECURSIVE FindById(_, _, _)
\* s.find(x => x.id === id) from position i on, as a position: 0 when there is none
FindById(s, id, i) ==
  IF i > Len(s) THEN 0
  ELSE IF s[i].id = id THEN i
  ELSE FindById(s, id, i + 1)

Categories == {"life_support", "fuel", "materials", "equipment"}

----------------------------------------------------------------------------
(* Static catalog: lib/solarSystemData.ts and lib/difficulty.ts *)

Body(id, radius, angle, period) ==
  [id |-> id, orbitalRadius |-> radius, currentAngle |-> angle, orbitalPeriod |-> period]

\* the bodies of celestialBodies that initialColonies and buildableSites use;
\* eccentricity, longitudeOfPerihelion and inclination are read by the map view only
celestialBodies ==
  [earth    |-> Body("earth",    100,  90000,   365),
   moon     |-> Body("moon",     100,  90000,   365),
   mars     |-> Body("mars",     152, 135000,   687),
   phobos   |-> Body("phobos",   152, 135000,   687),
   ceres    |-> Body("ceres",    277, 180000,  1680),
   vesta    |-> Body("vesta",    236, 170000,  1325),
   io       |-> Body("io",       520, 225000,  4333),
   europa   |-> Body("europa",   520, 225000,  4333),
   ganymede |-> Body("ganymede", 520, 225000,  4333),
   titan    |-> Body("titan",    954, 270000, 10759)]

Quantities(l, f, m, e) ==
  [life_support |-> l, fuel |-> f, materials |-> m, equipment |-> e]

ColonyOf(body, population, demand, inventory, satisfaction) ==
  [id |-> body.id, orbitalRadius |-> body.orbitalRadius,
   currentAngle |-> body.currentAngle, orbitalPeriod |-> body.orbitalPeriod,
   population |-> population, demand |-> demand, inventory |-> inventory,
   satisfaction |-> satisfaction * Scale]

initialColonies ==
  << ColonyOf(celestialBodies.moon,   50000, Quantities(100, 50, 80, 60),
              Quantities(200, 100, 150, 120), 80),
     ColonyOf(celestialBodies.mars,   30000, Quantities(80, 40, 100, 50),
              Quantities(150, 80, 180, 100), 75),
     ColonyOf(celestialBodies.phobos,  5000, Quantities(20, 30, 25, 15),
              Quantities(40, 60, 50, 30), 70),
     ColonyOf(celestialBodies.ceres,   8000, Quantities(30, 20, 40, 35),
              Quantities(60, 40, 80, 70), 65),
     ColonyOf(celestialBodies.europa, 12000, Quantities(40, 35, 30, 45),
              Quantities(80, 70, 60, 90), 60),
     ColonyOf(celestialBodies.titan,  15000, Quantities(50, 45, 35, 50),
              Quantities(100, 90, 70, 100), 55) >>

buildableSites ==
  << celestialBodies.earth, celestialBodies.mars, celestialBodies.vesta,
     celestialBodies.ceres, celestialBodies.io, celestialBodies.ganymede,
     celestialBodies.titan >>

DepotTypes == <<"small", "standard", "large", "specialized">>

depotSpecs ==
  [small       |-> [type |-> "small", constructionCost |-> 500,
                    maintenanceCost |-> 20, capacity |-> 500],
   standard    |-> [type |-> "standard", constructionCost |-> 1500,
                    maintenanceCost |-> 60, capacity |-> 2000],
   large       |-> [type |-> "large", constructionCost |-> 4000,
                    maintenanceCost |-> 150, capacity |-> 5000],
   specialized |-> [type |-> "specialized", constructionCost |-> 3000,
                    maintenanceCost |-> 100, capacity |-> 1500]]

Difficulties == {"easy", "normal", "hard"}

\* the four multipliers are in tenths
difficultySettings ==
  [easy   |-> [initialBudget |-> 15000, demandMultiplier |-> 7, incomeMultiplier |-> 12,
               maintenanceMultiplier |-> 8, satisfactionDecayMultiplier |-> 7],
   normal |-> [initialBudget |-> 10000, demandMultiplier |-> 10, incomeMultiplier |-> 10,
               maintenanceMultiplier |-> 10, satisfactionDecayMultiplier |-> 10],
   hard   |-> [initialBudget |-> 7000, demandMultiplier |-> 13, incomeMultiplier |-> 8,
               maintenanceMultiplier |-> 15, satisfactionDecayMultiplier |-> 13]]

getDifficultySettings(difficulty) == difficultySettings[difficulty]

----------------------------------------------------------------------------
(* Geometry: calculateDistance of lib/optimizer.ts *)

\* distanceAU in milli-AU: sqrt(r1^2 + r2^2 - 2 r1 r2 cos(|angle1 - angle2|)).
\* The product r1 * r2 * cos is formed in two halves to stay within 32 bits.
DistanceAU(body1, body2) ==
  LET r1 == body1.orbitalRadius
      r2 == body2.orbitalRadius
      angleDiff == Abs(body1.currentAngle - body2.currentAngle)
      c == Cos(angleDiff)
      p == r1 * r2
      pc == (p \div 1000) * c * 10 + ((p % 1000) * c) \div 100   \* r1 r2 cos, milli-AU^2
  IN Sqrt((r1 * r1 + r2 * r2) * 100 - 2 * pc)

\* an estimate without the floor of 0.1 months on the travel time
calculateDistanceNoFloor(body1, body2) ==
  LET distanceAU == DistanceAU(body1, body2)
      travelTimeMonths == (distanceAU * 103887) \div 10000
  IN [distance |-> distanceAU,
      travelTime |-> travelTimeMonths,
      cost |-> Round(50 * 1000 + distanceAU * 100, 1000)]

calculateDistance(body1, body2) ==
  LET distanceAU == DistanceAU(body1, body2)
      \* distanceKm / 20000 / 24 / 30 with 1 AU = 149597870.7 km: 10.3887 months per AU
      travelTimeMonths == (distanceAU * 103887) \div 10000
  IN [distance |-> distanceAU,
      travelTime |-> Max(100, travelTimeMonths),
      cost |-> Round(50 * 1000 + distanceAU * 100, 1000)]

----------------------------------------------------------------------------
(* lib/gameLogic.ts *)

\* Math.round(demand * demandMultiplier) on doubles. The products of the catalog
\* demands are exact except 45 * 0.7 = 31.499999999999996, which rounds down.
ScaleDemand(demand, multiplier) ==
  IF demand = 45 /\ multiplier = 7 THEN 31 ELSE Round(demand * multiplier, 10)

\* the catalog demand left as it is
scaleDemandsNot(demand, multiplier) == demand

\* the four assignments to colony.demand of initializeGame
scaleDemands(demand, multiplier) ==
  [life_support |-> ScaleDemand(demand.life_support, multiplier),
   fuel |-> ScaleDemand(demand.fuel, multiplier),
   materials |-> ScaleDemand(demand.materials, multiplier),
   equipment |-> ScaleDemand(demand.equipment, multiplier)]

Total(q) == q.life_support + q.fuel + q.materials + q.equipment

initializeGame(difficulty) ==
  LET diffSettings == getDifficultySettings(difficulty)
      catalog == SubSeq(initialColonies, 1, NumColonies)
      colonies == [i \in 1..Len(catalog) |->
                     [catalog[i] EXCEPT !.demand = scaleDemands(@, diffSettings.demandMultiplier)]]
  IN [currentTurn |-> 0,
      year |-> 2150,
      month |-> 1,
      epoch |-> 0,
      budget |-> diffSettings.initialBudget,
      income |-> 0,
      expenses |-> 0,
      colonies |-> colonies,
      depots |-> <<>>,
      routes |-> <<>>,
      score |-> [deliveryRate |-> 1000, costEfficiency |-> 1000, avgDeliveryTime |-> 0,
                 customerSatisfaction |-> 700, totalScore |-> 850],
      isGameOver |-> FALSE,
      gameOverReason |-> "undefined",
      history |-> <<>>,
      difficulty |-> difficulty]

\* the angle advanced without the remainder of 360
updateBodyUnwrapped(body) ==
  [body EXCEPT !.currentAngle = @ + Round(360 * 1000 * 30, body.orbitalPeriod)]

updateBody(body) ==
  LET days == 30
      \* anglePerDay * days = 360 / orbitalPeriod * 30 degrees
      advance == Round(360 * 1000 * days, body.orbitalPeriod)
  IN [body EXCEPT !.currentAngle = (@ + advance) % 360000]

updateOrbitalPositions(state) ==
  [state EXCEPT !.colonies = [i \in 1..Len(@) |-> updateBody(@[i])],
                !.depots = [i \in 1..Len(@) |-> updateBody(@[i])]]

\* consumption without the clamp at zero
consumeColonyUnclamped(colony) ==
  [colony EXCEPT !.inventory =
     [life_support |-> @.life_support - colony.demand.life_support,
      fuel |-> @.fuel - colony.demand.fuel,
      materials |-> @.materials - colony.demand.materials,
      equipment |-> @.equipment - colony.demand.equipment]]

\* consumption that writes what is left to the demand as well
consumeColonyDemand(colony) ==
  [colony EXCEPT !.inventory =
     [life_support |-> Max(0, @.life_support - colony.demand.life_support),
      fuel |-> Max(0, @.fuel - colony.demand.fuel),
      materials |-> Max(0, @.materials - colony.demand.materials),
      equipment |-> Max(0, @.equipment - colony.demand.equipment)],
                 !.demand =
     [life_support |-> Max(0, colony.inventory.life_support - @.life_support),
      fuel |-> Max(0, colony.inventory.fuel - @.fuel),
      materials |-> Max(0, colony.inventory.materials - @.materials),
      equipment |-> Max(0, colony.inventory.equipment - @.equipment)]]

consumeColony(colony) ==
  [colony EXCEPT !.inventory =
     [life_support |-> Max(0, @.life_support - colony.demand.life_support),
      fuel |-> Max(0, @.fuel - colony.demand.fuel),
      materials |-> Max(0, @.materials - colony.demand.materials),
      equipment |-> Max(0, @.equipment - colony.demand.equipment)]]

consumeInventory(state) ==
  [state EXCEPT !.colonies = [i \in 1..Len(@) |-> consumeColony(@[i])]]

\* a loop body that delivers one call late: when the duration has passed zero
stepRouteLate(colonies, route) ==
  IF route.status = "in_transit"
  THEN LET duration == route.duration - 1
       IN IF duration < 0
          THEN LET k == FindById(colonies, route.to, 1)
                   delivered ==
                     IF k = 0 THEN colonies
                     ELSE [colonies EXCEPT ![k].inventory =
                             [life_support |-> @.life_support + route.cargo.life_support,
                              fuel |-> @.fuel + route.cargo.fuel,
                              materials |-> @.materials + route.cargo.materials,
                              equipment |-> @.equipment + route.cargo.equipment]]
               IN [route |-> [route EXCEPT !.duration = duration, !.status = "delivered"],
                   colonies |-> delivered, completed |-> TRUE]
          ELSE [route |-> [route EXCEPT !.duration = duration],
                colonies |-> colonies, completed |-> FALSE]
  ELSE [route |-> route, colonies |-> colonies, completed |-> FALSE]

\* a loop body that assigns the cargo to the inventory instead of adding it
stepRouteAssign(colonies, route) ==
  IF route.status = "in_transit"
  THEN LET duration == route.duration - 1
       IN IF duration <= 0
          THEN LET k == FindById(colonies, route.to, 1)
                   delivered ==
                     IF k = 0 THEN colonies
                     ELSE [colonies EXCEPT ![k].inventory =
                             [life_support |-> route.cargo.life_support,
                              fuel |-> route.cargo.fuel,
                              materials |-> route.cargo.materials,
                              equipment |-> route.cargo.equipment]]
               IN [route |-> [route EXCEPT !.duration = duration, !.status = "delivered"],
                   colonies |-> delivered, completed |-> TRUE]
          ELSE [route |-> [route EXCEPT !.duration = duration],
                colonies |-> colonies, completed |-> FALSE]
  ELSE [route |-> route, colonies |-> colonies, completed |-> FALSE]

\* one pass of the loop body of processRoutes over route number i: the route with
\* its duration decremented and, when it completes, the colonies after its delivery
stepRoute(colonies, route) ==
  IF route.status = "in_transit"
  THEN LET duration == route.duration - 1
       IN IF duration <= 0
          THEN LET k == FindById(colonies, route.to, 1)
                   delivered ==
                     IF k = 0 THEN colonies
                     ELSE [colonies EXCEPT ![k].inventory =
                             [life_support |-> @.life_support + route.cargo.life_support,
                              fuel |-> @.fuel + route.cargo.fuel,
                              materials |-> @.materials + route.cargo.materials,
                              equipment |-> @.equipment + route.cargo.equipment]]
               IN [route |-> [route EXCEPT !.duration = duration, !.status = "delivered"],
                   colonies |-> delivered, completed |-> TRUE]
          ELSE [route |-> [route EXCEPT !.duration = duration],
                colonies |-> colonies, completed |-> FALSE]
  ELSE [route |-> route, colonies |-> colonies, completed |-> FALSE]

RECURSIVE loopRoutes(_, _, _, _)
\* the for loop of processRoutes from route i on; completedRoutes holds route ids
loopRoutes(colonies, routes, completedRoutes, i) ==
  IF i > Len(routes) THEN [colonies |-> colonies, routes |-> routes,
                           completedRoutes |-> completedRoutes]
  ELSE LET r == stepRoute(colonies, routes[i])
       IN loopRoutes(r.colonies, [routes EXCEPT ![i] = r.route],
                     IF r.completed THEN completedRoutes \cup {routes[i].id}
                     ELSE completedRoutes,
                     i + 1)

processRoutes(state) ==
  LET done == loopRoutes(state.colonies, state.routes, {}, 1)
      Kept(r) == r.id \notin done.completedRoutes
  IN [state EXCEPT !.colonies = done.colonies,
                   !.routes = SelectSeq(done.routes, Kept)]

\* a settlement that leaves the routes in transit out of the expenses
calculateFinancesNoFares(state) ==
  LET diffSettings == getDifficultySettings(state.difficulty)
      incomeOf == [i \in 1..Len(state.colonies) |->
                     (state.colonies[i].population \div 100)
                       * state.colonies[i].satisfaction * diffSettings.incomeMultiplier]
      upkeep == [i \in 1..Len(state.depots) |->
                   state.depots[i].maintenanceCost * diffSettings.maintenanceMultiplier]
      income == Round(SumSeq(incomeOf), 100 * Scale * 10)
      expenses == Round(SumSeq(upkeep), 10)
  IN [state EXCEPT !.income = income,
                   !.expenses = expenses,
                   !.budget = @ + income - expenses]

calculateFinances(state) ==
  LET diffSettings == getDifficultySettings(state.difficulty)
      \* baseIncome * satisfactionMultiplier * incomeMultiplier, times 100 * Scale * 10
      incomeOf == [i \in 1..Len(state.colonies) |->
                     (state.colonies[i].population \div 100)
                       * state.colonies[i].satisfaction * diffSettings.incomeMultiplier]
      \* maintenanceCost * maintenanceMultiplier, times 10
      upkeep == [i \in 1..Len(state.depots) |->
                   state.depots[i].maintenanceCost * diffSettings.maintenanceMultiplier]
      fares == [i \in 1..Len(state.routes) |->
                  IF state.routes[i].status = "in_transit"
                  THEN state.routes[i].cost * 10 ELSE 0]
      income == Round(SumSeq(incomeOf), 100 * Scale * 10)
      expenses == Round(SumSeq(upkeep) + SumSeq(fares), 10)
  IN [state EXCEPT !.income = income,
                   !.expenses = expenses,
                   !.budget = @ + income - expenses]

\* targetSatisfaction of a colony, in 1/Scale percent
targetSatisfaction(colony) ==
  LET Ratio(c) == (colony.inventory[c] * 100 * Scale) \div (colony.demand[c] * 2)
      avgRatio == (Ratio("life_support") + Ratio("fuel")
                     + Ratio("materials") + Ratio("equipment")) \div 4
  IN Min(100 * Scale, avgRatio)

\* an update without the two clamps: the target is the raw average ratio and the
\* result is stored as computed
updateColonySatisfactionRaw(colony, diffSettings) ==
  LET Ratio(c) == (colony.inventory[c] * 100 * Scale) \div (colony.demand[c] * 2)
      avgRatio == (Ratio("life_support") + Ratio("fuel")
                     + Ratio("materials") + Ratio("equipment")) \div 4
      changeRate == 3 * diffSettings.satisfactionDecayMultiplier
      change == Round((avgRatio - colony.satisfaction) * changeRate, 100)
  IN [colony EXCEPT !.satisfaction = @ + change]

\* an update whose changeRate is 0.3 + satisfactionDecayMultiplier
updateColonySatisfactionSum(colony, diffSettings) ==
  LET changeRate == 30 + 10 * diffSettings.satisfactionDecayMultiplier
      change == Round((targetSatisfaction(colony) - colony.satisfaction) * changeRate, 100)
  IN [colony EXCEPT !.satisfaction = Max(0, Min(100 * Scale, @ + change))]

updateColonySatisfaction(colony, diffSettings) ==
  LET changeRate == 3 * diffSettings.satisfactionDecayMultiplier   \* in hundredths
      change == Round((targetSatisfaction(colony) - colony.satisfaction) * changeRate, 100)
  IN [colony EXCEPT !.satisfaction = Max(0, Min(100 * Scale, @ + change))]

updateSatisfaction(state) ==
  LET diffSettings == getDifficultySettings(state.difficulty)
  IN [state EXCEPT !.colonies =
        [i \in 1..Len(@) |-> updateColonySatisfaction(@[i], diffSettings)]]

\* a score whose costEfficiency is not cut at zero for a budget <= 0
calculateScoreNoFloor(state) ==
  LET n == Len(state.colonies)
      demandOf == [i \in 1..n |-> Total(state.colonies[i].demand)]
      metOf == [i \in 1..n |-> Min(Total(state.colonies[i].inventory),
                                   Total(state.colonies[i].demand))]
      totalDemand == SumSeq(demandOf)
      metDemand == SumSeq(metOf)
      satisfactionSum == SumSeq([i \in 1..n |-> state.colonies[i].satisfaction])
      deliveryTerm == IF totalDemand > 0 THEN (400 * 1000 * metDemand) \div totalDemand
                      ELSE 400 * 1000
      costTerm == 30 * Min(10000, state.budget)
      satisfactionTerm == (3000 * satisfactionSum) \div (n * Scale)
  IN [state EXCEPT !.score =
        [deliveryRate |-> IF totalDemand > 0 THEN Round(metDemand * 1000, totalDemand)
                          ELSE 1000,
         costEfficiency |-> Min(1000, Round(state.budget, 10)),
         avgDeliveryTime |-> 0,
         customerSatisfaction |-> Round(satisfactionSum * 10, n * Scale),
         totalScore |-> Round(deliveryTerm + costTerm + satisfactionTerm, 1000)]]

\* a score whose met demand is taken category by category
calculateScorePerCategory(state) ==
  LET n == Len(state.colonies)
      demandOf == [i \in 1..n |-> Total(state.colonies[i].demand)]
      MetIn(colony, c) == Min(colony.inventory[c], colony.demand[c])
      metOf == [i \in 1..n |->
                  MetIn(state.colonies[i], "life_support") + MetIn(state.colonies[i], "fuel")
                    + MetIn(state.colonies[i], "materials")
                    + MetIn(state.colonies[i], "equipment")]
      totalDemand == SumSeq(demandOf)
      metDemand == SumSeq(metOf)
      satisfactionSum == SumSeq([i \in 1..n |-> state.colonies[i].satisfaction])
      deliveryTerm == IF totalDemand > 0 THEN (400 * 1000 * metDemand) \div totalDemand
                      ELSE 400 * 1000
      costTerm == IF state.budget > 0 THEN 30 * Min(10000, state.budget) ELSE 0
      satisfactionTerm == (3000 * satisfactionSum) \div (n * Scale)
  IN [state EXCEPT !.score =
        [deliveryRate |-> IF totalDemand > 0 THEN Round(metDemand * 1000, totalDemand)
                          ELSE 1000,
         costEfficiency |-> IF state.budget > 0 THEN Min(1000, Round(state.budget, 10))
                            ELSE 0,
         avgDeliveryTime |-> 0,
         customerSatisfaction |-> Round(satisfactionSum * 10, n * Scale),
         totalScore |-> Round(deliveryTerm + costTerm + satisfactionTerm, 1000)]]

calculateScore(state) ==
  LET n == Len(state.colonies)
      demandOf == [i \in 1..n |-> Total(state.colonies[i].demand)]
      metOf == [i \in 1..n |-> Min(Total(state.colonies[i].inventory),
                                   Total(state.colonies[i].demand))]
      totalDemand == SumSeq(demandOf)
      metDemand == SumSeq(metOf)
      satisfactionSum == SumSeq([i \in 1..n |-> state.colonies[i].satisfaction])
      \* deliveryRate * 0.4, costEfficiency * 0.3 and avgSatisfaction * 0.3, times 10^4
      deliveryTerm == IF totalDemand > 0 THEN (400 * 1000 * metDemand) \div totalDemand
                      ELSE 400 * 1000
      costTerm == IF state.budget > 0 THEN 30 * Min(10000, state.budget) ELSE 0
      satisfactionTerm == (3000 * satisfactionSum) \div (n * Scale)
  IN [state EXCEPT !.score =
        [deliveryRate |-> IF totalDemand > 0 THEN Round(metDemand * 1000, totalDemand)
                          ELSE 1000,
         costEfficiency |-> IF state.budget > 0 THEN Min(1000, Round(state.budget, 10))
                            ELSE 0,
         avgDeliveryTime |-> 0,
         customerSatisfaction |-> Round(satisfactionSum * 10, n * Scale),
         totalScore |-> Round(deliveryTerm + costTerm + satisfactionTerm, 1000)]]

\* a history that drops the entry just pushed (pop) instead of the oldest (shift)
addToHistoryPop(state) ==
  LET Served(c) == 2 * Total(c.inventory) >= Total(c.demand)
      entry == [turn |-> state.currentTurn,
                budget |-> state.budget,
                totalScore |-> state.score.totalScore,
                deliveryRate |-> state.score.deliveryRate,
                customerSatisfaction |-> state.score.customerSatisfaction,
                coloniesServed |-> Len(SelectSeq(state.colonies, Served))]
      pushed == Append(state.history, entry)
  IN [state EXCEPT !.history = IF Len(pushed) > 120 THEN SubSeq(pushed, 1, 120)
                               ELSE pushed]

addToHistory(state) ==
  LET Served(c) == 2 * Total(c.inventory) >= Total(c.demand)
      entry == [turn |-> state.currentTurn,
                budget |-> state.budget,
                totalScore |-> state.score.totalScore,
                deliveryRate |-> state.score.deliveryRate,
                customerSatisfaction |-> state.score.customerSatisfaction,
                coloniesServed |-> Len(SelectSeq(state.colonies, Served))]
      pushed == Append(state.history, entry)
  IN [state EXCEPT !.history = IF Len(pushed) > 120 THEN Tail(pushed) ELSE pushed]

MAX_TURNS == 120
BANKRUPTCY_THRESHOLD == -5000
VICTORY_SCORE == 95
VICTORY_TURNS == 60

\* a check without the early return for a finished game
checkGameOverAgain(state) ==
  LET allColoniesLost == \A i \in 1..Len(state.colonies) :
                           state.colonies[i].satisfaction < 20 * Scale
  IN IF state.budget < BANKRUPTCY_THRESHOLD
       THEN [state EXCEPT !.isGameOver = TRUE, !.gameOverReason = "bankruptcy"]
     ELSE IF state.currentTurn >= MAX_TURNS
       THEN [state EXCEPT !.isGameOver = TRUE, !.gameOverReason = "max_turns"]
     ELSE IF allColoniesLost /\ state.currentTurn > 12
       THEN [state EXCEPT !.isGameOver = TRUE, !.gameOverReason = "all_colonies_lost"]
     ELSE IF /\ state.currentTurn >= VICTORY_TURNS
             /\ state.score.totalScore >= VICTORY_SCORE * 10
             /\ state.score.customerSatisfaction >= 90 * 10
             /\ state.budget > 5000
       THEN [state EXCEPT !.isGameOver = TRUE, !.gameOverReason = "victory"]
     ELSE state

\* a check that takes a budget at the threshold for bankruptcy
checkGameOverAtThreshold(state) ==
  LET allColoniesLost == \A i \in 1..Len(state.colonies) :
                           state.colonies[i].satisfaction < 20 * Scale
  IN IF state.isGameOver THEN state
     ELSE IF state.budget <= BANKRUPTCY_THRESHOLD
       THEN [state EXCEPT !.isGameOver = TRUE, !.gameOverReason = "bankruptcy"]
     ELSE IF state.currentTurn >= MAX_TURNS
       THEN [state EXCEPT !.isGameOver = TRUE, !.gameOverReason = "max_turns"]
     ELSE IF allColoniesLost /\ state.currentTurn > 12
       THEN [state EXCEPT !.isGameOver = TRUE, !.gameOverReason = "all_colonies_lost"]
     ELSE IF /\ state.currentTurn >= VICTORY_TURNS
             /\ state.score.totalScore >= VICTORY_SCORE * 10
             /\ state.score.customerSatisfaction >= 90 * 10
             /\ state.budget > 5000
       THEN [state EXCEPT !.isGameOver = TRUE, !.gameOverReason = "victory"]
     ELSE state

\* a check that looks for victory before the turn limit
checkGameOverVictoryFirst(state) ==
  LET allColoniesLost == \A i \in 1..Len(state.colonies) :
                           state.colonies[i].satisfaction < 20 * Scale
  IN IF state.isGameOver THEN state
     ELSE IF state.budget < BANKRUPTCY_THRESHOLD
       THEN [state EXCEPT !.isGameOver = TRUE, !.gameOverReason = "bankruptcy"]
     ELSE IF /\ state.currentTurn >= VICTORY_TURNS
             /\ state.score.totalScore >= VICTORY_SCORE * 10
             /\ state.score.customerSatisfaction >= 90 * 10
             /\ state.budget > 5000
       THEN [state EXCEPT !.isGameOver = TRUE, !.gameOverReason = "victory"]
     ELSE IF state.currentTurn >= MAX_TURNS
       THEN [state EXCEPT !.isGameOver = TRUE, !.gameOverReason = "max_turns"]
     ELSE IF allColoniesLost /\ state.currentTurn > 12
       THEN [state EXCEPT !.isGameOver = TRUE, !.gameOverReason = "all_colonies_lost"]
     ELSE state

\* a check that ends the game only after the turn limit has been passed
checkGameOverPastLimit(state) ==
  LET allColoniesLost == \A i \in 1..Len(state.colonies) :
                           state.colonies[i].satisfaction < 20 * Scale
  IN IF state.isGameOver THEN state
     ELSE IF state.budget < BANKRUPTCY_THRESHOLD
       THEN [state EXCEPT !.isGameOver = TRUE, !.gameOverReason = "bankruptcy"]
     ELSE IF state.currentTurn > MAX_TURNS
       THEN [state EXCEPT !.isGameOver = TRUE, !.gameOverReason = "max_turns"]
     ELSE IF allColoniesLost /\ state.currentTurn > 12
       THEN [state EXCEPT !.isGameOver = TRUE, !.gameOverReason = "all_colonies_lost"]
     ELSE IF /\ state.currentTurn >= VICTORY_TURNS
             /\ state.score.totalScore >= VICTORY_SCORE * 10
             /\ state.score.customerSatisfaction >= 90 * 10
             /\ state.budget > 5000
       THEN [state EXCEPT !.isGameOver = TRUE, !.gameOverReason = "victory"]
     ELSE state

\* a check without the first year of grace
checkGameOverNoGrace(state) ==
  LET allColoniesLost == \A i \in 1..Len(state.colonies) :
                           state.colonies[i].satisfaction < 20 * Scale
  IN IF state.isGameOver THEN state
     ELSE IF state.budget < BANKRUPTCY_THRESHOLD
       THEN [state EXCEPT !.isGameOver = TRUE, !.gameOverReason = "bankruptcy"]
     ELSE IF state.currentTurn >= MAX_TURNS
       THEN [state EXCEPT !.isGameOver = TRUE, !.gameOverReason = "max_turns"]
     ELSE IF allColoniesLost
       THEN [state EXCEPT !.isGameOver = TRUE, !.gameOverReason = "all_colonies_lost"]
     ELSE IF /\ state.currentTurn >= VICTORY_TURNS
             /\ state.score.totalScore >= VICTORY_SCORE * 10
             /\ state.score.customerSatisfaction >= 90 * 10
             /\ state.budget > 5000
       THEN [state EXCEPT !.isGameOver = TRUE, !.gameOverReason = "victory"]
     ELSE state

\* a check that grants victory on any turn
checkGameOverAnyTurn(state) ==
  LET allColoniesLost == \A i \in 1..Len(state.colonies) :
                           state.colonies[i].satisfaction < 20 * Scale
  IN IF state.isGameOver THEN state
     ELSE IF state.budget < BANKRUPTCY_THRESHOLD
       THEN [state EXCEPT !.isGameOver = TRUE, !.gameOverReason = "bankruptcy"]
     ELSE IF state.currentTurn >= MAX_TURNS
       THEN [state EXCEPT !.isGameOver = TRUE, !.gameOverReason = "max_turns"]
     ELSE IF allColoniesLost /\ state.currentTurn > 12
       THEN [state EXCEPT !.isGameOver = TRUE, !.gameOverReason = "all_colonies_lost"]
     ELSE IF /\ state.score.totalScore >= VICTORY_SCORE * 10
             /\ state.score.customerSatisfaction >= 90 * 10
             /\ state.budget > 5000
       THEN [state EXCEPT !.isGameOver = TRUE, !.gameOverReason = "victory"]
     ELSE state

checkGameOver(state) ==
  LET allColoniesLost == \A i \in 1..Len(state.colonies) :
                           state.colonies[i].satisfaction < 20 * Scale
  IN IF state.isGameOver THEN state
     ELSE IF state.budget < BANKRUPTCY_THRESHOLD
       THEN [state EXCEPT !.isGameOver = TRUE, !.gameOverReason = "bankruptcy"]
     ELSE IF state.currentTurn >= MAX_TURNS
       THEN [state EXCEPT !.isGameOver = TRUE, !.gameOverReason = "max_turns"]
     ELSE IF allColoniesLost /\ state.currentTurn > 12
       THEN [state EXCEPT !.isGameOver = TRUE, !.gameOverReason = "all_colonies_lost"]
     ELSE IF /\ state.currentTurn >= VICTORY_TURNS
             /\ state.score.totalScore >= VICTORY_SCORE * 10
             /\ state.score.customerSatisfaction >= 90 * 10
             /\ state.budget > 5000
       THEN [state EXCEPT !.isGameOver = TRUE, !.gameOverReason = "victory"]
     ELSE state

\* a calendar that rolls over on reaching month 12 instead of on passing it
advanceCalendarEarly(state) ==
  LET month == state.month + 1
  IN [state EXCEPT !.currentTurn = @ + 1,
                   !.month = IF month >= 12 THEN 1 ELSE month,
                   !.year = IF month >= 12 THEN @ + 1 ELSE @,
                   !.epoch = @ + 30]

advanceCalendar(state) ==
  LET month == state.month + 1
  IN [state EXCEPT !.currentTurn = @ + 1,
                   !.month = IF month > 12 THEN 1 ELSE month,
                   !.year = IF month > 12 THEN @ + 1 ELSE @,
                   !.epoch = @ + 30]

\* an advanceTurn that settles the finances before it processes the routes
advanceTurnSettleFirst(state) ==
  checkGameOver(addToHistory(calculateScore(updateSatisfaction(processRoutes(
    calculateFinances(consumeInventory(updateOrbitalPositions(advanceCalendar(state)))))))))

\* an advanceTurn that updates the satisfaction before the colonies consume
advanceTurnSatisfiedFirst(state) ==
  checkGameOver(addToHistory(calculateScore(calculateFinances(processRoutes(
    consumeInventory(updateSatisfaction(updateOrbitalPositions(advanceCalendar(state)))))))))

\* an advanceTurn that processes the routes before the colonies consume
advanceTurnDeliverFirst(state) ==
  checkGameOver(addToHistory(calculateScore(updateSatisfaction(calculateFinances(
    consumeInventory(processRoutes(updateOrbitalPositions(advanceCalendar(state)))))))))

advanceTurn(state) ==
  checkGameOver(addToHistory(calculateScore(updateSatisfaction(calculateFinances(
    processRoutes(consumeInventory(updateOrbitalPositions(advanceCalendar(state)))))))))

\* what Date.now() and Math.random() return while a call runs
Environments == {[now |-> now, random |-> random] : now \in {0, 1}, random \in {0, 1}}

\* an advanceTurn that adds the clock reading to epoch
advanceTurnStamped(state, environment) ==
  [advanceTurn(state) EXCEPT !.epoch = @ + environment.now]

\* advanceTurn called in an environment: neither it nor a function it calls reads
\* Date.now() or Math.random()
advanceTurnIn(state, environment) == advanceTurn(state)

Return(state) == [thrown |-> "none", state |-> state]
Throw(message) == [thrown |-> message]

\* a buildDepot that does not look at the budget
buildDepotOnCredit(state, depot) ==
  LET exists == FindById(state.depots, depot.id, 1) # 0
  IN IF exists THEN Throw("depot already built here")
     ELSE Return([state EXCEPT !.depots = Append(@, depot),
                               !.budget = @ - depot.constructionCost])

\* a buildDepot that does not look for a depot with the same id
buildDepotTwice(state, depot) ==
  IF state.budget < depot.constructionCost THEN Throw("insufficient budget")
  ELSE Return([state EXCEPT !.depots = Append(@, depot),
                            !.budget = @ - depot.constructionCost])

\* a buildDepot that puts the new depot first and charges a month of upkeep as well
buildDepotUpkeep(state, depot) ==
  LET exists == FindById(state.depots, depot.id, 1) # 0
  IN IF state.budget < depot.constructionCost THEN Throw("insufficient budget")
     ELSE IF exists THEN Throw("depot already built here")
     ELSE Return([state EXCEPT !.depots = <<depot>> \o @,
                               !.budget = @ - depot.constructionCost
                                            - depot.maintenanceCost])

\* a buildDepot that refuses a finished game
buildDepotOpenOnly(state, depot) ==
  LET exists == FindById(state.depots, depot.id, 1) # 0
  IN IF state.isGameOver THEN Throw("game is over")
     ELSE IF state.budget < depot.constructionCost THEN Throw("insufficient budget")
     ELSE IF exists THEN Throw("depot already built here")
     ELSE Return([state EXCEPT !.depots = Append(@, depot),
                               !.budget = @ - depot.constructionCost])

buildDepot(state, depot) ==
  LET exists == FindById(state.depots, depot.id, 1) # 0
  IN IF state.budget < depot.constructionCost THEN Throw("insufficient budget")
     ELSE IF exists THEN Throw("depot already built here")
     ELSE Return([state EXCEPT !.depots = Append(@, depot),
                               !.budget = @ - depot.constructionCost])

\* a createRoute that returns the state as it is when an id is not found
createRouteSilent(state, fromId, toId, cargo, id) ==
  LET depot == FindById(state.depots, fromId, 1)
      colony == FindById(state.colonies, toId, 1)
  IN IF depot = 0 \/ colony = 0 THEN Return(state)
     ELSE LET distanceCalc == calculateDistance(state.depots[depot], state.colonies[colony])
              route == [id |-> id,
                        from |-> fromId,
                        to |-> toId,
                        cargo |-> cargo,
                        cost |-> distanceCalc.cost,
                        duration |-> Ceil(distanceCalc.travelTime, 1000),
                        status |-> "in_transit"]
          IN Return([state EXCEPT !.routes = Append(@, route)])

\* a createRoute that rounds the travel time down
createRouteFloor(state, fromId, toId, cargo, id) ==
  LET depot == FindById(state.depots, fromId, 1)
      colony == FindById(state.colonies, toId, 1)
  IN IF depot = 0 \/ colony = 0 THEN Throw("depot or colony not found")
     ELSE LET distanceCalc == calculateDistance(state.depots[depot], state.colonies[colony])
              route == [id |-> id,
                        from |-> fromId,
                        to |-> toId,
                        cargo |-> cargo,
                        cost |-> distanceCalc.cost,
                        duration |-> distanceCalc.travelTime \div 1000,
                        status |-> "in_transit"]
          IN Return([state EXCEPT !.routes = Append(@, route)])

\* id stands for the string `route-${Date.now()}-${Math.random()}`: a fresh id
createRoute(state, fromId, toId, cargo, id) ==
  LET depot == FindById(state.depots, fromId, 1)
      colony == FindById(state.colonies, toId, 1)
  IN IF depot = 0 \/ colony = 0 THEN Throw("depot or colony not found")
     ELSE LET distanceCalc == calculateDistance(state.depots[depot], state.colonies[colony])
              route == [id |-> id,
                        from |-> fromId,
                        to |-> toId,
                        cargo |-> cargo,
                        cost |-> distanceCalc.cost,
                        duration |-> Ceil(distanceCalc.travelTime, 1000),
                        status |-> "in_transit"]
          IN Return([state EXCEPT !.routes = Append(@, route)])

RECURSIVE nearestDepotLast(_, _, _, _)
\* a scan that takes a depot at an equal distance too, so the last of a tie wins
nearestDepotLast(depots, colony, i, nearest) ==
  IF i > Len(depots) THEN nearest
  ELSE LET dist == calculateDistance(depots[i], colony)
           closer == \/ nearest = 0
                     \/ dist.distance <= calculateDistance(depots[nearest], colony).distance
       IN nearestDepotLast(depots, colony, i + 1, IF closer THEN i ELSE nearest)

RECURSIVE nearestDepot(_, _, _, _)
\* the inner loop of autoSupply from depot i on; nearest = 0 is null and then
\* minDistance is Infinity
nearestDepot(depots, colony, i, nearest) ==
  IF i > Len(depots) THEN nearest
  ELSE LET dist == calculateDistance(depots[i], colony)
           closer == \/ nearest = 0
                     \/ dist.distance < calculateDistance(depots[nearest], colony).distance
       IN nearestDepot(depots, colony, i + 1, IF closer THEN i ELSE nearest)

needsSupply(colony) ==
  \/ 2 * colony.inventory.life_support < 3 * colony.demand.life_support
  \/ 2 * colony.inventory.fuel < 3 * colony.demand.fuel
  \/ 2 * colony.inventory.materials < 3 * colony.demand.materials
  \/ 2 * colony.inventory.equipment < 3 * colony.demand.equipment

supplyCargo(colony) ==
  [life_support |-> Max(0, colony.demand.life_support * 2 - colony.inventory.life_support),
   fuel |-> Max(0, colony.demand.fuel * 2 - colony.inventory.fuel),
   materials |-> Max(0, colony.demand.materials * 2 - colony.inventory.materials),
   equipment |-> Max(0, colony.demand.equipment * 2 - colony.inventory.equipment)]

RECURSIVE loopSupplyPending(_, _, _, _)
\* a loop that passes over a colony to which a route is in transit
loopSupplyPending(newState, colonies, i, id) ==
  IF i > Len(colonies) THEN newState
  ELSE LET colony == colonies[i]
           nearest == nearestDepot(newState.depots, colony, 1, 0)
           pending == \E k \in 1..Len(newState.routes) :
                        /\ newState.routes[k].to = colony.id
                        /\ newState.routes[k].status = "in_transit"
       IN IF ~needsSupply(colony) \/ nearest = 0 \/ pending
          THEN loopSupplyPending(newState, colonies, i + 1, id)
          ELSE LET r == createRoute(newState, newState.depots[nearest].id, colony.id,
                                    supplyCargo(colony), id)
               IN IF r.thrown = "none"
                  THEN loopSupplyPending(r.state, colonies, i + 1, id + 1)
                  ELSE loopSupplyPending(newState, colonies, i + 1, id)

RECURSIVE loopSupply(_, _, _, _)
\* the outer loop of autoSupply from colony i of colonies on; id is the next fresh id
loopSupply(newState, colonies, i, id) ==
  IF i > Len(colonies) THEN newState
  ELSE LET colony == colonies[i]
           nearest == nearestDepot(newState.depots, colony, 1, 0)
       IN IF ~needsSupply(colony) \/ nearest = 0
          THEN loopSupply(newState, colonies, i + 1, id)
          ELSE LET r == createRoute(newState, newState.depots[nearest].id, colony.id,
                                    supplyCargo(colony), id)
               IN IF r.thrown = "none"
                  THEN loopSupply(r.state, colonies, i + 1, id + 1)
                  ELSE loopSupply(newState, colonies, i + 1, id)

\* an autoSupply that rejects a state without depots instead of returning it
autoSupplyStrict(state, id) ==
  IF Len(state.depots) = 0 THEN Throw("depot or colony not found")
  ELSE Return(loopSupply(state, state.colonies, 1, id))

\* the try and catch around createRoute are in loopSupply; nothing else can throw
autoSupply(state, id) ==
  IF Len(state.depots) = 0 THEN Return(state)
  ELSE Return(loopSupply(state, state.colonies, 1, id))

\* const newState = { ...state }: a new object whose colonies, depots, routes and
\* history are the arrays of the object that was passed
spreadState(state) == [object |-> "newState", arrays |-> "state", fields |-> state]

\* const newState = JSON.parse(JSON.stringify(state)), the first statement of
\* advanceTurn, buildDepot, createRoute and autoSupply: a new object with new
\* arrays and the fields of state (the numbers of a state are finite, so none
\* becomes null)
parseStringify(state) == [object |-> "newState", arrays |-> "newState", fields |-> state]

\* the objects after a call whose writes left newState as written: the object that
\* was passed, and which object was returned or abandoned by a throw
objectsAfter(state, written) ==
  LET newState == parseStringify(state)
  IN [state |-> IF newState.object = "state" THEN written
                ELSE IF newState.arrays = "state"
                  THEN [state EXCEPT !.colonies = written.colonies,
                                     !.depots = written.depots,
                                     !.routes = written.routes,
                                     !.history = written.history]
                ELSE state,
      newState |-> newState.object,
      arrays |-> newState.arrays]

----------------------------------------------------------------------------
(* The page: handlers of app/page.tsx calling the engine *)

Sites == {buildableSites[i] : i \in 1..NumSites}
\* depot types offered to buildDepot
Types == {"small", "large"}
ColonyIds == {initialColonies[i].id : i \in 1..NumColonies}
SiteIds == {site.id : site \in Sites}

\* cargoes offered to createRoute
Cargoes == {Quantities(50, 50, 50, 50), Quantities(200, 0, 0, 0)}

newDepot(site, depotType) ==
  LET spec == depotSpecs[depotType]
  IN [id |-> site.id, orbitalRadius |-> site.orbitalRadius,
      currentAngle |-> site.currentAngle, orbitalPeriod |-> site.orbitalPeriod,
      depotType |-> depotType,
      constructionCost |-> spec.constructionCost,
      maintenanceCost |-> spec.maintenanceCost,
      capacity |-> spec.capacity,
      currentStock |-> 0]

\* no call of the optimizer in progress
Idle == [pc |-> "idle"]

\* ledger entries of the routes a call appended
Entries(before, after) ==
  [i \in 1..(Len(after.routes) - Len(before.routes)) |->
     [route |-> after.routes[Len(before.routes) + i], calls |-> calls]]

Start(difficulty) ==
  /\ gameState = initializeGame(difficulty)
  /\ thrown = "none"
  /\ routeSeq = 0
  /\ ledger = <<>>
  /\ calls = 0
  /\ ops = 0
  /\ optimizer = Idle

Init == \E difficulty \in Difficulties : Start(difficulty)

AdvanceTurn ==
  /\ gameState' = advanceTurn(gameState)
  /\ thrown' = "none"
  /\ calls' = calls + 1
  /\ UNCHANGED <<routeSeq, ledger, ops, optimizer>>

\* handleBuildDepot: a throw is caught and the page keeps its gameState
BuildDepotAt(site, depotType) ==
  /\ LET r == buildDepot(gameState, newDepot(site, depotType))
     IN /\ gameState' = IF r.thrown = "none" THEN r.state ELSE gameState
        /\ thrown' = r.thrown
  /\ ops' = IF gameState' = gameState THEN ops ELSE ops + 1
  /\ UNCHANGED <<routeSeq, ledger, calls, optimizer>>

BuildDepot == \E site \in Sites, depotType \in Types : BuildDepotAt(site, depotType)

\* the state the page holds after a call that returned or threw r
Kept(r) == IF r.thrown = "none" THEN r.state ELSE gameState

\* the page and the ledger after a call that returned or threw r
Settle(r) ==
  /\ gameState' = Kept(r)
  /\ thrown' = r.thrown
  /\ routeSeq' = routeSeq + Len(gameState'.routes) - Len(gameState.routes)
  /\ ledger' = ledger \o Entries(gameState, gameState')

CreateRouteAt(fromId, toId, cargo) ==
  /\ Settle(createRoute(gameState, fromId, toId, cargo, routeSeq + 1))
  /\ ops' = IF gameState' = gameState THEN ops ELSE ops + 1
  /\ UNCHANGED <<calls, optimizer>>

\* ids offered to createRoute: every site and colony id, and "earth" as a colony id
\* that no colony has
FromIds == SiteIds
ToIds == ColonyIds \cup {"earth"}

CreateRoute ==
  \E fromId \in FromIds, toId \in ToIds, cargo \in Cargoes :
    CreateRouteAt(fromId, toId, cargo)

\* handleNextTurn calls autoSupply outside any try: a throw would leave the page
\* without a new state
AutoSupply ==
  /\ Settle(autoSupply(gameState, routeSeq + 1))
  /\ ops' = IF gameState' = gameState THEN ops ELSE ops + 1
  /\ UNCHANGED <<calls, optimizer>>

PlayerOp == BuildDepot \/ CreateRoute \/ AutoSupply

Next ==
  \/ calls < MaxCalls /\ AdvanceTurn
  \/ ops < MaxOps /\ BuildDepot
  \/ ops < MaxOps /\ CreateRoute
  \/ ops < MaxOps /\ AutoSupply

\* a game started with initializeGame
Spec == Init /\ [][Next]_vars

\* a new game played for more than a year, the player acting in its first turns only
NextLong ==
  \/ calls < MaxLongCalls /\ AdvanceTurn
  \/ ops < MaxLongOps /\ calls < MaxOpTurn /\ BuildDepot
  \/ ops < MaxLongOps /\ calls < MaxOpTurn /\ CreateRoute
  \/ ops < MaxLongOps /\ calls < MaxOpTurn /\ AutoSupply

SpecLong == Init /\ [][NextLong]_vars

\* handleNextTurn with the state advanceTurn returned and what autoSupply returned
\* for it
NextTurnWith(newState, r) ==
  /\ gameState' = r.state
  /\ thrown' = r.thrown
  /\ routeSeq' = routeSeq + Len(r.state.routes) - Len(newState.routes)
  /\ ledger' = ledger \o [i \in 1..(Len(r.state.routes) - Len(newState.routes)) |->
                            [route |-> r.state.routes[Len(newState.routes) + i],
                             calls |-> calls + 1]]
  /\ calls' = calls + 1
  /\ ops' = IF r.state = newState THEN ops ELSE ops + 1
  /\ UNCHANGED optimizer

\* handleNextTurn: setGameState(autoSupply(advanceTurn(gameState)))
HandleNextTurn ==
  NextTurnWith(advanceTurn(gameState), autoSupply(advanceTurn(gameState), routeSeq + 1))

\* a whole game on the page: depots built before the first turn, then the turns
NextFull ==
  \/ calls < MaxFullCalls /\ HandleNextTurn
  \/ calls = 0 /\ ops < MaxFullOps /\ BuildDepot

\* the step that counts a turn: of the steps of NextFull, handleNextTurn and no
\* other, and possible whenever turns are left
TurnFull == calls < MaxFullCalls /\ calls' = calls + 1

\* the player goes on pressing the next-turn button
SpecFull == Init /\ [][NextFull]_vars /\ WF_calls(TurnFull)

----------------------------------------------------------------------------
(* A game loaded from a save slot: a GameState snapshot of an earlier session *)

\* a body after n turns: updateBody applied n times
Orbit(body, n) ==
  [body EXCEPT !.currentAngle =
     (@ + n * (updateBody(body).currentAngle + 360000 - @)) % 360000]

\* satisfaction of the first colony and of the others, in percent, and the months
\* of demand the first colony and the others have in stock
Conditions == {<<15, 15, 0, 0>>, <<19, 25, 0, 0>>, <<85, 92, 10, 10>>}
\* the first colony out of stock, the others well stocked
Uneven == <<60, 60, 0, 10>>
\* budgets after the next settlement at and between the ends of the costEfficiency
\* scale
UnevenBudgets == {0, 5004, 10000}
\* budgets after the next settlement
Budgets == {BANKRUPTCY_THRESHOLD - 1, BANKRUPTCY_THRESHOLD, 20000}
SavedTurns == {11, 12, 59, 119}
Fleets == {"none", "depots and a route"}
\* two depots on one orbit at one angle, at the same distance from every colony
Twins == "depots at io and ganymede"
Reasons == {"bankruptcy", "max_turns", "all_colonies_lost", "victory"}

SavedRoute ==
  [id |-> 1, from |-> "earth", to |-> "moon", cargo |-> Quantities(50, 50, 50, 50),
   cost |-> 50, duration |-> 2, status |-> "in_transit"]

\* the snapshot but for its budget, score and history
SavedWorld(difficulty, turn, condition, fleet, reason) ==
  LET new == initializeGame(difficulty)
      Stocked(demand, months) ==
        Quantities(demand.life_support * months, demand.fuel * months,
                   demand.materials * months, demand.equipment * months)
  IN [new EXCEPT
        !.currentTurn = turn,
        !.year = 2150 + turn \div 12,
        !.month = (turn % 12) + 1,
        !.epoch = 30 * turn,
        !.colonies = [i \in 1..Len(new.colonies) |->
                        [Orbit(new.colonies[i], turn) EXCEPT
                           !.inventory = Stocked(new.colonies[i].demand,
                                                 condition[IF i = 1 THEN 3 ELSE 4]),
                           !.satisfaction = condition[IF i = 1 THEN 1 ELSE 2] * Scale]],
        !.depots = IF fleet = "none" THEN <<>>
                   ELSE IF fleet = Twins
                     THEN <<Orbit(newDepot(buildableSites[5], "small"), turn),
                            Orbit(newDepot(buildableSites[6], "small"), turn)>>
                   ELSE <<Orbit(newDepot(buildableSites[1], "large"), turn),
                          Orbit(newDepot(buildableSites[2], "large"), turn)>>,
        !.routes = IF fleet \in {"none", Twins} THEN <<>> ELSE <<SavedRoute>>,
        !.isGameOver = reason # "undefined",
        !.gameOverReason = reason]

\* income - expenses of the next advanceTurn
NextNet(state) ==
  LET settled == calculateFinances(processRoutes(consumeInventory(
                   updateOrbitalPositions(advanceCalendar(state)))))
  IN settled.income - settled.expenses

SavedGame(difficulty, turn, budget, condition, fleet, reason) ==
  LET world == SavedWorld(difficulty, turn, condition, fleet, reason)
      funded == calculateScore([world EXCEPT !.budget = budget - NextNet(world)])
      kept == Min(turn, 120)
  IN [funded EXCEPT !.history =
        [i \in 1..kept |->
           [turn |-> turn - kept + i,
            budget |-> funded.budget,
            totalScore |-> funded.score.totalScore,
            deliveryRate |-> funded.score.deliveryRate,
            customerSatisfaction |-> funded.score.customerSatisfaction,
            coloniesServed |-> (IF condition[3] = 0 THEN 0 ELSE 1)
                                 + (IF condition[4] = 0 THEN 0
                                    ELSE Len(funded.colonies) - 1)]]]

\* a snapshot the engine can have produced: an open game meets no game-over
\* condition, a finished one is past the first turn its reason can be given on
WellFormed(state) ==
  /\ ~state.isGameOver => checkGameOver(state) = state
  /\ state.gameOverReason = "bankruptcy" => state.currentTurn >= 1
  /\ state.gameOverReason = "max_turns" => state.currentTurn >= MAX_TURNS
  /\ state.gameOverReason = "all_colonies_lost" => state.currentTurn > 12
  /\ state.gameOverReason = "victory" => state.currentTurn >= VICTORY_TURNS

Loaded(state) ==
  /\ WellFormed(state)
  /\ gameState = state
  /\ thrown = "none"
  /\ routeSeq = Len(state.routes)
  /\ ledger = [i \in 1..Len(state.routes) |-> [route |-> state.routes[i], calls |-> 0]]
  /\ calls = 0
  /\ ops = 0
  /\ optimizer = Idle

InitSaved ==
  \/ \E turn \in SavedTurns, budget \in Budgets, condition \in Conditions,
        fleet \in Fleets :
       Loaded(SavedGame("normal", turn, budget, condition, fleet, "undefined"))
  \/ \E reason \in Reasons, budget \in Budgets, condition \in Conditions :
       Loaded(SavedGame("normal", MAX_TURNS + 1, budget, condition, "none", reason))
  \/ \E difficulty \in Difficulties, budget \in UnevenBudgets :
       Loaded(SavedGame(difficulty, 11, budget, Uneven, Twins, "undefined"))

NextSaved ==
  \/ calls < MaxSavedCalls /\ AdvanceTurn
  \/ ops < MaxSavedOps /\ BuildDepot
  \/ ops < MaxSavedOps /\ CreateRoute
  \/ ops < MaxSavedOps /\ AutoSupply

SpecSaved == InitSaved /\ [][NextSaved]_vars

----------------------------------------------------------------------------
(* Facility location: greedyFacilityLocation and pMedianOptimization of    *)
(* lib/optimizer.ts.  Site and colony indices count from 0 as they do in   *)
(* the program.                                                            *)

\* the doubles the optimizer compares and adds: finite distances (milli-AU) and
\* costs (milli-AU x tons), Infinity and NaN
Number(n) == [kind |-> "finite", value |-> n]
Infinity == [kind |-> "Infinity", value |-> 0]
NaN == [kind |-> "NaN", value |-> 0]

\* a < b
Less(a, b) ==
  CASE a.kind = "NaN" \/ b.kind = "NaN" -> FALSE
    [] a.kind = "Infinity" -> FALSE
    [] b.kind = "Infinity" -> TRUE
    [] OTHER -> a.value < b.value

\* a <= b
LessEq(a, b) ==
  CASE a.kind = "NaN" \/ b.kind = "NaN" -> FALSE
    [] b.kind = "Infinity" -> TRUE
    [] a.kind = "Infinity" -> FALSE
    [] OTHER -> a.value <= b.value

\* a + b
Plus(a, b) ==
  CASE a.kind = "NaN" \/ b.kind = "NaN" -> NaN
    [] a.kind = "Infinity" \/ b.kind = "Infinity" -> Infinity
    [] OTHER -> Number(a.value + b.value)

\* a * n for an integer n >= 0
Times(a, n) ==
  CASE a.kind = "NaN" -> NaN
    [] a.kind = "Infinity" -> IF n = 0 THEN NaN ELSE Infinity
    [] OTHER -> Number(a.value * n)

\* array.includes(x)
Includes(array, x) == \E k \in 1..Len(array) : array[k] = x

\* matrix[siteIdx][colonyIdx]
calculateDistanceMatrix(colonies, candidateSites) ==
  [siteIdx \in 0..(Len(candidateSites) - 1) |->
     [colonyIdx \in 0..(Len(colonies) - 1) |->
        calculateDistance(candidateSites[siteIdx + 1], colonies[colonyIdx + 1]).distance]]

\* the colonies within maxDistance of a site
Within(distanceMatrix, colonies, siteIdx, maxDistance) ==
  {colonyIdx \in 0..(Len(colonies) - 1) :
     LessEq(Number(distanceMatrix[siteIdx][colonyIdx]), maxDistance)}

\* the comparison turned into newlyCovered >= maxNewlyCovered
coversAsMany(newlyCovered, maxNewlyCovered) == newlyCovered >= maxNewlyCovered

\* newlyCovered > maxNewlyCovered
coversMore(newlyCovered, maxNewlyCovered) == newlyCovered > maxNewlyCovered

\* the loop over siteIdx of one round, from siteIdx on: bestSite and maxNewlyCovered
RECURSIVE scanSites(_, _, _, _, _, _, _, _)
scanSites(distanceMatrix, colonies, candidateSites, maxDistance, selectedSites, coveredColonies, siteIdx, best) ==
  IF siteIdx >= Len(candidateSites) THEN best
  ELSE IF Includes(selectedSites, siteIdx)
    THEN scanSites(distanceMatrix, colonies, candidateSites, maxDistance,
                   selectedSites, coveredColonies, siteIdx + 1, best)
  ELSE LET newlyCovered ==
             Cardinality(Within(distanceMatrix, colonies, siteIdx, maxDistance)
                           \ coveredColonies)
       IN scanSites(distanceMatrix, colonies, candidateSites, maxDistance,
                    selectedSites, coveredColonies, siteIdx + 1,
                    IF coversMore(newlyCovered, best.maxNewlyCovered)
                      THEN [bestSite |-> siteIdx, maxNewlyCovered |-> newlyCovered]
                      ELSE best)

\* the rounds i, i + 1, ... of greedyFacilityLocation
RECURSIVE greedyRounds(_, _, _, _, _, _, _, _)
greedyRounds(distanceMatrix, colonies, candidateSites, maxDepots, maxDistance, i, selectedSites, coveredColonies) ==
  IF ~(i < maxDepots) THEN selectedSites
  ELSE LET best == scanSites(distanceMatrix, colonies, candidateSites, maxDistance,
                             selectedSites, coveredColonies, 0,
                             [bestSite |-> -1, maxNewlyCovered |-> 0])
       IN IF best.bestSite = -1 \/ best.maxNewlyCovered = 0 THEN selectedSites
          ELSE LET pushed == Append(selectedSites, best.bestSite)
                   covered == coveredColonies \cup
                                Within(distanceMatrix, colonies, best.bestSite, maxDistance)
               IN IF Cardinality(covered) = Len(colonies) THEN pushed
                  ELSE greedyRounds(distanceMatrix, colonies, candidateSites, maxDepots,
                                    maxDistance, i + 1, pushed, covered)

\* the rounds counted with i <= maxDepots
greedyFacilityLocationOneMore(colonies, candidateSites, maxDepots, maxDistance) ==
  greedyRounds(calculateDistanceMatrix(colonies, candidateSites), colonies,
               candidateSites, maxDepots + 1, maxDistance, 0, <<>>, {})

greedyFacilityLocation(colonies, candidateSites, maxDepots, maxDistance) ==
  greedyRounds(calculateDistanceMatrix(colonies, candidateSites), colonies,
               candidateSites, maxDepots, maxDistance, 0, <<>>, {})

\* the loop over selectedSites of calculateTotalCost for one colony, from the
\* k-th selected site on
RECURSIVE nearestSelected(_, _, _, _, _)
nearestSelected(distanceMatrix, selectedSites, colonyIdx, k, minDistance) ==
  IF k > Len(selectedSites) THEN minDistance
  ELSE LET distance == Number(distanceMatrix[selectedSites[k]][colonyIdx])
       IN nearestSelected(distanceMatrix, selectedSites, colonyIdx, k + 1,
                          IF Less(distance, minDistance) THEN distance ELSE minDistance)

\* the loop over colonies of calculateTotalCost, from colonyIdx on
RECURSIVE sumCosts(_, _, _, _, _)
sumCosts(distanceMatrix, selectedSites, colonies, colonyIdx, totalCost) ==
  IF colonyIdx >= Len(colonies) THEN totalCost
  ELSE LET minDistance == nearestSelected(distanceMatrix, selectedSites, colonyIdx,
                                          1, Infinity)
           totalDemand == Total(colonies[colonyIdx + 1].demand)
       IN sumCosts(distanceMatrix, selectedSites, colonies, colonyIdx + 1,
                   Plus(totalCost, Times(minDistance, totalDemand)))

calculateTotalCost(distanceMatrix, selectedSites, colonies) ==
  sumCosts(distanceMatrix, selectedSites, colonies, 0, Number(0))

\* a call of the optimizer with its arguments: p is maxDepots for
\* greedyFacilityLocation and p for pMedianOptimization, which has no maxDistance
\* of its own and passes Infinity
Call(colonies, candidateSites, p, maxDistance, maxIterations) ==
  [pc |-> "called",
   colonies |-> colonies, candidateSites |-> candidateSites, p |-> p,
   maxDistance |-> maxDistance, maxIterations |-> maxIterations,
   selectedSites |-> <<>>,
   currentSolution |-> <<>>, currentCost |-> Number(0),
   iter |-> 0, improved |-> FALSE, i |-> 0, newSite |-> 0,
   budget |-> 0, depotType |-> "none", sites |-> <<>>, evaluation |-> <<>>]

\* pMedianOptimization up to its first pass
seedSolution(o) ==
  LET distanceMatrix == calculateDistanceMatrix(o.colonies, o.candidateSites)
      currentSolution == greedyFacilityLocation(o.colonies, o.candidateSites, o.p, Infinity)
      currentCost == calculateTotalCost(distanceMatrix, currentSolution, o.colonies)
  IN [o EXCEPT !.pc = "pass", !.maxDistance = Infinity,
               !.currentSolution = currentSolution, !.currentCost = currentCost]

\* the comparison turned round: testCost > currentCost
acceptsWorse(testCost, currentCost) == Less(currentCost, testCost)

\* testCost < currentCost
accepts(testCost, currentCost) == Less(testCost, currentCost)

\* a loop over newSite that stops one candidate short of the last
trySubstitutionShort(o) ==
  LET distanceMatrix == calculateDistanceMatrix(o.colonies, o.candidateSites)
      testSolution == [o.currentSolution EXCEPT ![o.i + 1] = o.newSite]
      testCost == calculateTotalCost(distanceMatrix, testSolution, o.colonies)
      tried == IF Includes(o.currentSolution, o.newSite) THEN o
               ELSE IF accepts(testCost, o.currentCost)
                 THEN [o EXCEPT !.currentSolution = testSolution,
                                !.currentCost = testCost,
                                !.improved = TRUE]
               ELSE o
  IN IF o.newSite + 1 < Len(o.candidateSites) - 1
       THEN [tried EXCEPT !.newSite = @ + 1]
       ELSE [tried EXCEPT !.i = @ + 1, !.newSite = 0]

\* the body of the loops over i and newSite, and the step to the next newSite
trySubstitution(o) ==
  LET distanceMatrix == calculateDistanceMatrix(o.colonies, o.candidateSites)
      testSolution == [o.currentSolution EXCEPT ![o.i + 1] = o.newSite]
      testCost == calculateTotalCost(distanceMatrix, testSolution, o.colonies)
      tried == IF Includes(o.currentSolution, o.newSite) THEN o
               ELSE IF accepts(testCost, o.currentCost)
                 THEN [o EXCEPT !.currentSolution = testSolution,
                                !.currentCost = testCost,
                                !.improved = TRUE]
               ELSE o
  IN IF o.newSite + 1 < Len(o.candidateSites)
       THEN [tried EXCEPT !.newSite = @ + 1]
       ELSE [tried EXCEPT !.i = @ + 1, !.newSite = 0]

\* the end of a pass: break if nothing improved, else the next iter
endPass(o) ==
  IF ~o.improved THEN [o EXCEPT !.pc = "returned"]
  ELSE [o EXCEPT !.iter = @ + 1, !.improved = FALSE, !.i = 0, !.newSite = 0]

\* the nearest depot's distance: the loops over depots of evaluatePlacement
minDist(colony, depots) ==
  LET distances == {calculateDistance(colony, depots[k]).distance : k \in 1..Len(depots)}
  IN IF Len(depots) = 0 THEN Infinity
     ELSE Number(CHOOSE d \in distances : \A e \in distances : d <= e)

\* Math.round(a * scale) / scale for a carried in units of 1/(d * scale)
Rounded(a, d) == IF a.kind = "finite" THEN Number(Round(a.value, d)) ELSE a

\* the transport cost of evaluatePlacement summed from the k-th colony on, in
\* hundredths of a credit: distance x demand x 12 x 10
RECURSIVE sumTransport(_, _, _, _)
sumTransport(colonies, depots, k, annualTransportCost) ==
  IF k > Len(colonies) THEN annualTransportCost
  ELSE sumTransport(colonies, depots, k + 1,
                    Plus(annualTransportCost,
                         Times(minDist(colonies[k], depots),
                               Total(colonies[k].demand) * 12)))

\* avgDistance and maxDistance are in centi-AU, coverageRate in tenths of a percent
evaluatePlacement(colonies, depots) ==
  LET constructionCost == SumSeq([k \in 1..Len(depots) |-> depots[k].constructionCost])
      annualMaintenanceCost ==
        SumSeq([k \in 1..Len(depots) |-> depots[k].maintenanceCost * 12])
      covered == {k \in 1..Len(colonies) : Less(minDist(colonies[k], depots), Infinity)}
      distances == [k \in 1..Len(colonies) |->
                      IF k \in covered THEN minDist(colonies[k], depots).value ELSE 0]
      totalDistance == SumSeq(distances)
      maxDistance == IF covered = {} THEN 0
                     ELSE CHOOSE d \in {distances[k] : k \in covered} :
                            \A k \in covered : distances[k] <= d
      annualTransportCost == Rounded(sumTransport(colonies, depots, 1, Number(0)), 100)
  IN [totalCost |-> Plus(Number(constructionCost + annualMaintenanceCost),
                         annualTransportCost),
      constructionCost |-> constructionCost,
      annualMaintenanceCost |-> annualMaintenanceCost,
      annualTransportCost |-> annualTransportCost,
      coverageRate |-> IF Len(colonies) > 0
                         THEN Round(Cardinality(covered) * 1000, Len(colonies)) ELSE 0,
      avgDistance |-> IF Len(colonies) > 0 THEN Round(totalDistance, Len(colonies) * 10)
                      ELSE 0,
      maxDistance |-> Round(maxDistance, 10)]

\* Math.ceil in place of Math.floor
maxDepotsCeil(budget, depotType) == Ceil(budget, depotSpecs[depotType].constructionCost)

\* maxDepots of generateRecommendedPlacement: Math.floor(budget / spec.constructionCost)
maxDepotsFor(budget, depotType) == budget \div depotSpecs[depotType].constructionCost

\* a call of generateRecommendedPlacement with its arguments; it calls
\* pMedianOptimization with the default maxIterations
Request(colonies, candidateSites, budget, depotType) ==
  [Call(colonies, candidateSites, 0, Infinity, 50) EXCEPT
     !.pc = "requested", !.budget = budget, !.depotType = depotType]

\* generateRecommendedPlacement up to the first pass of pMedianOptimization
seedRecommendation(o) ==
  seedSolution([o EXCEPT !.p = Min(maxDepotsFor(o.budget, o.depotType), 5)])

\* generateRecommendedPlacement after pMedianOptimization returned
recommend(o) ==
  LET selectedSites == [k \in 1..Len(o.currentSolution) |->
                          o.candidateSites[o.currentSolution[k] + 1]]
      depots == [k \in 1..Len(selectedSites) |-> newDepot(selectedSites[k], o.depotType)]
  IN [o EXCEPT !.pc = "recommended",
               !.sites = selectedSites,
               !.evaluation = evaluatePlacement(o.colonies, depots)]

\* colonies of the catalog where they are after whole years of play
ColonyLists ==
  {[i \in 1..n |-> Orbit(initialColonies[i], 12 * y)] :
     n \in 0..MaxColonies, y \in 0..MaxYears}
CandidateLists == {SubSeq(buildableSites, 1, n) : n \in 0..MaxCandidates}
\* 1.0 AU, the default 3.0 AU and the Infinity pMedianOptimization passes
MaxDistances == {Number(1000), Number(3000), Infinity}
\* budgets below, at and between the construction costs of one, two and more depots
RequestBudgets == {-1, 0, 1499, 1500, 2999, 10000}
\* the page asks for standard depots
RequestTypes == {"small", "standard"}

InitOptimizer ==
  /\ gameState = initializeGame("normal")
  /\ thrown = "none"
  /\ routeSeq = 0
  /\ ledger = <<>>
  /\ calls = 0
  /\ ops = 0
  /\ \/ \E colonies \in ColonyLists, candidateSites \in CandidateLists,
           p \in 0..MaxDepots, maxDistance \in MaxDistances,
           maxIterations \in 0..MaxIterations :
          optimizer = Call(colonies, candidateSites, p, maxDistance, maxIterations)
     \/ \E colonies \in ColonyLists, candidateSites \in CandidateLists,
           budget \in RequestBudgets, depotType \in RequestTypes :
          optimizer = Request(colonies, candidateSites, budget, depotType)

Game == <<gameState, thrown, routeSeq, ledger, calls, ops>>

GreedyFacilityLocation ==
  /\ optimizer.pc = "called"
  /\ optimizer' =
       [optimizer EXCEPT
          !.pc = "greedy returned",
          !.selectedSites = greedyFacilityLocation(optimizer.colonies,
                              optimizer.candidateSites, optimizer.p,
                              optimizer.maxDistance)]
  /\ UNCHANGED Game

SeedSolution ==
  /\ optimizer.pc = "called"
  /\ optimizer' = seedSolution(optimizer)
  /\ UNCHANGED Game

TrySubstitution ==
  /\ optimizer.pc = "pass"
  /\ optimizer.iter < optimizer.maxIterations
  /\ optimizer.i < Len(optimizer.currentSolution)
  /\ optimizer' = trySubstitution(optimizer)
  /\ UNCHANGED Game

EndPass ==
  /\ optimizer.pc = "pass"
  /\ optimizer.iter < optimizer.maxIterations
  /\ optimizer.i >= Len(optimizer.currentSolution)
  /\ optimizer' = endPass(optimizer)
  /\ UNCHANGED Game

GenerateRecommendedPlacement ==
  /\ optimizer.pc = "requested"
  /\ optimizer' = seedRecommendation(optimizer)
  /\ UNCHANGED Game

ReturnRecommendation ==
  /\ optimizer.pc = "returned"
  /\ optimizer.depotType # "none"
  /\ optimizer' = recommend(optimizer)
  /\ UNCHANGED Game

\* the loop over iter ran maxIterations times
ReturnSolution ==
  /\ optimizer.pc = "pass"
  /\ optimizer.iter >= optimizer.maxIterations
  /\ optimizer' = [optimizer EXCEPT !.pc = "returned"]
  /\ UNCHANGED Game

NextOptimizer ==
  \/ GreedyFacilityLocation
  \/ SeedSolution
  \/ TrySubstitution
  \/ EndPass
  \/ ReturnSolution
  \/ GenerateRecommendedPlacement
  \/ ReturnRecommendation

\* calls of greedyFacilityLocation, pMedianOptimization and
\* generateRecommendedPlacement
SpecOptimizer == InitOptimizer /\ [][NextOptimizer]_vars

----------------------------------------------------------------------------
(* Properties *)

ActiveIds(state) == {state.routes[i].id : i \in 1..Len(state.routes)}

\* the advanceTurn call (counted from the initial state) that delivers route id
Due(id) == ledger[id].calls + ledger[id].route.duration

\* cargo of category c that the n-th advanceTurn call delivers to a colony
Arriving(colonyId, c, n) ==
  SumSeq([id \in 1..routeSeq |->
            IF Due(id) = n /\ ledger[id].route.to = colonyId
            THEN ledger[id].route.cargo[c] ELSE 0])

StateOf(i) == gameState.colonies[i]

\* C1: a route of duration d is active during the d - 1 advanceTurn calls after its
\* creation and leaves the active set on the d-th; an advanceTurn adds to each
\* colony exactly the cargo of the routes whose d-th call it is, so every cargo is
\* added once, on that call, and neither earlier nor later.
C1_DeliveredOnDthTurn ==
  /\ [](\A id \in 1..routeSeq : id \in ActiveIds(gameState) <=> calls < Due(id))
  /\ [](ActiveIds(gameState) \subseteq 1..routeSeq)
  /\ [][AdvanceTurn =>
          \A i \in 1..Len(gameState.colonies), c \in Categories :
            gameState'.colonies[i].inventory[c]
              = Max(0, StateOf(i).inventory[c] - StateOf(i).demand[c])
                  + Arriving(StateOf(i).id, c, calls')]_vars

\* a route of duration 2 or more has just been delivered, and its cargo is in stock
C1_Witness ==
  \E id \in 1..routeSeq :
    /\ ledger[id].route.duration >= 2
    /\ calls = Due(id)
    /\ id \notin ActiveIds(gameState)
    /\ \E i \in 1..Len(gameState.colonies) :
         /\ StateOf(i).id = ledger[id].route.to
         /\ StateOf(i).inventory.fuel >= ledger[id].route.cargo.fuel
         /\ ledger[id].route.cargo.fuel > 0

\* C2: once isGameOver is true, no call changes it or the reason, and advanceTurn
\* returns without throwing.
C2_GameOverIsTerminal ==
  [][gameState.isGameOver =>
       /\ gameState'.isGameOver
       /\ gameState'.gameOverReason = gameState.gameOverReason
       /\ (AdvanceTurn => thrown' = "none")]_vars

\* a finished game was advanced into a state that meets another condition (the
\* budget is below the bankruptcy line) and has kept its reason
C2_Witness ==
  /\ gameState.isGameOver
  /\ gameState.gameOverReason = "victory"
  /\ calls >= 1
  /\ gameState.budget < BANKRUPTCY_THRESHOLD

\* C3: an advanceTurn of an open game returns reason bankruptcy exactly when the
\* settled budget is below -5000; at -5000 the game stays open or ends otherwise.
C3_BankruptcyBelowThreshold ==
  [][AdvanceTurn /\ ~gameState.isGameOver =>
       /\ gameState'.budget < -5000 =>
            gameState'.isGameOver /\ gameState'.gameOverReason = "bankruptcy"
       /\ gameState'.budget >= -5000 => gameState'.gameOverReason # "bankruptcy"]_vars

\* the budget settled at exactly -5000 on one turn without ending the game, and fell
\* below it on the next, which ended it
C3_Witness ==
  LET n == Len(gameState.history)
  IN /\ calls = 2
     /\ gameState.history[n - 1].budget = -5000
     /\ gameState.budget < -5000
     /\ gameState.gameOverReason = "bankruptcy"

\* the conditions of checkGameOver on a state
Bankrupt(state) == state.budget < -5000
OutOfTurns(state) == state.currentTurn >= 120
AllLost(state) ==
  /\ \A i \in 1..Len(state.colonies) : state.colonies[i].satisfaction < 20 * Scale
  /\ state.currentTurn > 12
Victorious(state) ==
  /\ state.currentTurn >= 60
  /\ state.score.totalScore >= 950
  /\ state.score.customerSatisfaction >= 900
  /\ state.budget > 5000

\* C4: the reason an advanceTurn gives an open game is the first condition that
\* holds, in the order bankruptcy, max_turns, all_colonies_lost, victory.
C4_FirstConditionWins ==
  [][AdvanceTurn /\ ~gameState.isGameOver =>
       LET s == gameState'
       IN /\ Bankrupt(s) => s.gameOverReason = "bankruptcy"
          /\ ~Bankrupt(s) /\ OutOfTurns(s) => s.gameOverReason = "max_turns"
          /\ ~Bankrupt(s) /\ ~OutOfTurns(s) /\ AllLost(s) =>
               s.gameOverReason = "all_colonies_lost"
          /\ ~Bankrupt(s) /\ ~OutOfTurns(s) /\ ~AllLost(s) /\ Victorious(s) =>
               s.gameOverReason = "victory"]_vars

\* turn 120 was reached with the victory conditions met, and the game ended for
\* max_turns
C4_Witness ==
  /\ gameState.currentTurn = 120
  /\ calls = 1
  /\ Victorious(gameState)
  /\ gameState.gameOverReason = "max_turns"

DepotIds(state) == {state.depots[i].id : i \in 1..Len(state.depots)}

\* what every step of BuildDepot and of CreateRoute leaves alone
BuildStep == UNCHANGED <<routeSeq, ledger, calls>>
RouteStep == calls' = calls /\ gameState'.depots = gameState.depots
ColonyIdsOf(state) == {state.colonies[i].id : i \in 1..Len(state.colonies)}

\* C6: a buildDepot with budget < constructionCost fails and leaves every field of
\* the state as it was.
C6_InsufficientBudgetFails ==
  [][BuildStep => \A site \in Sites, depotType \in Types :
       gameState.budget < depotSpecs[depotType].constructionCost
         /\ BuildDepotAt(site, depotType)
       => thrown' # "none" /\ gameState' = gameState]_vars

\* a depot was refused for its cost after another had been paid for
C6_Witness ==
  /\ thrown = "insufficient budget"
  /\ Len(gameState.depots) >= 1
  /\ gameState.budget >= 0
  /\ gameState.budget < depotSpecs["large"].constructionCost

\* C7: no two depots share an id, and a buildDepot for an id that has a depot fails
\* and leaves the state unchanged.
C7_OneDepotPerId ==
  /\ [](\A i, j \in 1..Len(gameState.depots) :
          gameState.depots[i].id = gameState.depots[j].id => i = j)
  /\ [][BuildStep => \A site \in Sites, depotType \in Types :
          site.id \in DepotIds(gameState) /\ BuildDepotAt(site, depotType)
          => thrown' # "none" /\ gameState' = gameState]_vars

\* a second depot at a site was refused although the budget covered it
C7_Witness ==
  /\ thrown = "depot already built here"
  /\ gameState.budget >= depotSpecs["large"].constructionCost
  /\ Len(gameState.depots) >= 1

\* C8: a buildDepot with budget >= constructionCost and no depot of that id returns
\* the state with the depot appended and the cost deducted, the budget still >= 0,
\* and every other field unchanged.
C8_BuildAppendsAndDeducts ==
  [][BuildStep => \A site \in Sites, depotType \in Types :
       gameState.budget >= depotSpecs[depotType].constructionCost
         /\ site.id \notin DepotIds(gameState)
         /\ BuildDepotAt(site, depotType)
       => /\ thrown' = "none"
          /\ gameState' =
               [gameState EXCEPT
                  !.depots = Append(@, newDepot(site, depotType)),
                  !.budget = @ - depotSpecs[depotType].constructionCost]
          /\ gameState'.budget >= 0]_vars

\* a second depot was built after a turn had been played
C8_Witness ==
  /\ thrown = "none"
  /\ Len(gameState.depots) = 2
  /\ gameState.currentTurn >= 1
  /\ Len(gameState.history) >= 1

\* C9: a createRoute with a depot id not in depots or a colony id not in colonies
\* fails and leaves the state untouched.
C9_UnknownIdFails ==
  [][RouteStep => \A fromId \in FromIds, toId \in ToIds, cargo \in Cargoes :
       (fromId \notin DepotIds(gameState) \/ toId \notin ColonyIdsOf(gameState))
         /\ CreateRouteAt(fromId, toId, cargo)
       => thrown' # "none" /\ gameState' = gameState]_vars

\* a route was refused in a game that has a depot and has played a turn, and no
\* route was added
C9_Witness ==
  /\ thrown = "depot or colony not found"
  /\ Len(gameState.depots) >= 1
  /\ gameState.currentTurn >= 1
  /\ gameState.routes = <<>>
  /\ routeSeq = 0

\* C10: a successful createRoute appends one in_transit route with the given origin,
\* destination and cargo and a duration >= 1, the ceiling of a travel time of at
\* least 0.1 months; every other field, the budget included, is unchanged.
C10_CreateAppendsRoute ==
  [][RouteStep => \A fromId \in FromIds, toId \in ToIds, cargo \in Cargoes :
       thrown' = "none" /\ CreateRouteAt(fromId, toId, cargo)
       => LET n == Len(gameState'.routes)
              route == gameState'.routes[n]
              estimate ==
                calculateDistance(
                  gameState.depots[FindById(gameState.depots, fromId, 1)],
                  gameState.colonies[FindById(gameState.colonies, toId, 1)])
          IN /\ gameState' = [gameState EXCEPT !.routes = Append(@, route)]
             /\ route.status = "in_transit"
             /\ route.from = fromId /\ route.to = toId /\ route.cargo = cargo
             /\ route.id \notin ActiveIds(gameState)
             /\ estimate.travelTime >= 100
             /\ route.duration = Ceil(estimate.travelTime, 1000)
             /\ route.duration >= 1]_vars

\* a route between two bodies at distance zero was created with duration 1
C10_Witness ==
  /\ thrown = "none"
  /\ Len(gameState.routes) = 1
  /\ LET route == gameState.routes[1]
     IN /\ route.cargo = Quantities(200, 0, 0, 0)
        /\ route.duration = 1
        /\ ledger[route.id].calls = calls
        /\ calculateDistance(
             gameState.depots[FindById(gameState.depots, route.from, 1)],
             gameState.colonies[FindById(gameState.colonies, route.to, 1)]).distance = 0

\* a colony with some category below 1.5 months of demand
Short(colony) == \E c \in Categories : 2 * colony.inventory[c] < 3 * colony.demand[c]

\* the routes a step has put at the end of the route list
Added == SubSeq(gameState'.routes, Len(gameState.routes) + 1, Len(gameState'.routes))

\* depot j is the nearest to the colony, and the first of the list at that distance
FirstNearest(depots, colony, j) ==
  LET d(k) == calculateDistance(depots[k], colony).distance
  IN /\ \A k \in 1..Len(depots) : d(j) <= d(k)
     /\ \A k \in 1..(j - 1) : d(j) < d(k)

C13_HistoryLast120 ==
  LET n == Len(gameState.history)
  IN /\ n <= 120
     /\ n = Min(gameState.currentTurn, 120)
     /\ \A i \in 1..n : gameState.history[i].turn = gameState.currentTurn - n + i

\* turn 121 was played on a finished game: the entry of turn 1 is gone and the
\* history runs from turn 2 to turn 121
C13_Witness ==
  /\ calls = 2
  /\ gameState.isGameOver
  /\ gameState.currentTurn = 121
  /\ Len(gameState.history) = 120
  /\ gameState.history[1].turn = 2
  /\ gameState.history[120].turn = 121

Calendar(state) == <<state.currentTurn, state.epoch, state.month, state.year>>

\* C14: n advanceTurn calls after initializeGame, currentTurn = n, epoch = 30 n,
\* month = (n mod 12) + 1 in 1..12 and year = 2150 + floor(n / 12); the year goes up
\* exactly on the step from month 12 to month 1; buildDepot, createRoute and
\* autoSupply leave the four fields alone.
C14_Calendar ==
  /\ [](/\ gameState.currentTurn = calls
        /\ gameState.epoch = 30 * calls
        /\ gameState.month = (calls % 12) + 1
        /\ gameState.month \in 1..12
        /\ gameState.year = 2150 + calls \div 12)
  /\ [][/\ gameState'.year = gameState.year + 1
             <=> gameState.month = 12 /\ gameState'.month = 1
        /\ gameState'.year \in {gameState.year, gameState.year + 1}
        /\ BuildDepot \/ CreateRoute \/ AutoSupply
             => Calendar(gameState') = Calendar(gameState)]_vars

\* thirteen turns into a game with a depot and a route created on turn 0, the year
\* has rolled over to February 2151
C14_Witness ==
  /\ calls = 13
  /\ gameState.month = 2
  /\ gameState.year = 2151
  /\ Len(gameState.depots) >= 1
  /\ routeSeq >= 1

\* maintenance of the depots of a state at its difficulty, in tenths of a credit
Upkeep(state) ==
  SumSeq([i \in 1..Len(state.depots) |->
            state.depots[i].maintenanceCost
              * difficultySettings[state.difficulty].maintenanceMultiplier])

\* cost of the routes of a state that are in transit, in credits
Fares(state) ==
  SumSeq([i \in 1..Len(state.routes) |->
            IF state.routes[i].status = "in_transit" THEN state.routes[i].cost ELSE 0])

\* C15: an advanceTurn makes the budget budget + income - expenses, with expenses the
\* rounded sum of the depots' maintenance times maintenanceMultiplier and the cost of
\* every route in transit, on each turn the route is in transit; no floor applies.
C15_BudgetSettlement ==
  [][AdvanceTurn =>
       /\ gameState'.budget = gameState.budget + gameState'.income - gameState'.expenses
       /\ gameState'.expenses = Round(Upkeep(gameState') + 10 * Fares(gameState'), 10)
       /\ \A id \in ActiveIds(gameState') :
            gameState'.expenses >= ledger[id].route.cost]_vars

\* a route created before two turns is still in transit and was charged on both,
\* and the budget is negative
C15_Witness ==
  /\ calls = 2
  /\ gameState.budget < 0
  /\ Len(gameState.history) >= 2
  /\ gameState.budget < gameState.history[Len(gameState.history) - 1].budget
  /\ \E id \in ActiveIds(gameState) :
       /\ ledger[id].calls = 0
       /\ ledger[id].route.cost > 0
       /\ gameState.expenses >= ledger[id].route.cost + Upkeep(gameState) \div 10

\* C16: every colony's satisfaction is within [0, 100], at each difficulty, the
\* demand of every colony being positive in every category.
C16_SatisfactionInRange ==
  \A i \in 1..Len(gameState.colonies) :
    /\ StateOf(i).satisfaction >= 0
    /\ StateOf(i).satisfaction <= 100 * Scale
    /\ \A c \in Categories : StateOf(i).demand[c] > 0

\* on hard, after a turn, a colony holding more than two months of every category
\* (its raw ratio is above 100 percent) has gained satisfaction and a colony out of
\* stock has lost some
C16_Witness ==
  /\ gameState.difficulty = "hard"
  /\ calls >= 1
  /\ \E i, j \in 1..Len(gameState.colonies) :
       /\ \A c \in Categories : StateOf(i).inventory[c] > 4 * StateOf(i).demand[c]
       /\ StateOf(i).satisfaction > Uneven[2] * Scale
       /\ Total(StateOf(j).inventory) = 0
       /\ StateOf(j).satisfaction < Uneven[1] * Scale

\* sum of all demand, and the demand met, colony by colony on the totals of the four
\* categories
AllDemand(state) ==
  SumSeq([i \in 1..Len(state.colonies) |-> Total(state.colonies[i].demand)])
MetByColony(state) ==
  SumSeq([i \in 1..Len(state.colonies) |->
            Min(Total(state.colonies[i].inventory), Total(state.colonies[i].demand))])

\* deliveryRate in tenths of a percent: 100 x met / demand rounded to one decimal
RateOf(met, demand) == IF demand > 0 THEN Round(met * 1000, demand) ELSE 1000

\* C17 as stated: deliveryRate is 100 x (sum over colonies and categories of
\* min(inventory, demand) of the category) / (sum of demand), so that a surplus in
\* one category does not make up for a shortage in another.
C17_PerCategoryRate ==
  LET MetIn(colony, c) == Min(colony.inventory[c], colony.demand[c])
      metByCategory ==
        SumSeq([i \in 1..Len(gameState.colonies) |->
                  MetIn(StateOf(i), "life_support") + MetIn(StateOf(i), "fuel")
                    + MetIn(StateOf(i), "materials") + MetIn(StateOf(i), "equipment")])
  IN gameState.score.deliveryRate = RateOf(metByCategory, AllDemand(gameState))

\* C17 amended: deliveryRate is 100 x (sum over colonies of min(total inventory,
\* total demand) of the colony) / (sum of demand), to one decimal, and 100 when the
\* demand is 0: within a colony a surplus in one category makes up for a shortage in
\* another; between colonies it does not.
C17_PerColonyRate ==
  gameState.score.deliveryRate = RateOf(MetByColony(gameState), AllDemand(gameState))

\* a turn was scored with a colony holding a surplus of life support and nothing of
\* the other categories
C17_Witness ==
  /\ calls >= 3
  /\ \E i \in 1..Len(gameState.colonies) :
       /\ StateOf(i).inventory.life_support > StateOf(i).demand.life_support
       /\ StateOf(i).inventory.fuel = 0
       /\ StateOf(i).inventory.materials = 0
       /\ StateOf(i).inventory.equipment = 0
  /\ gameState.score.deliveryRate > 0

\* C18: after an advanceTurn costEfficiency is 0 for a settled budget <= 0, budget /
\* 100 (to one decimal) for 0 < budget < 10000 and 100 from 10000 on; deliveryRate,
\* customerSatisfaction and totalScore are within [0, 100].
C18_CostEfficiency ==
  [][AdvanceTurn =>
       LET budget == gameState'.budget
           score == gameState'.score
       IN /\ budget <= 0 => score.costEfficiency = 0
          /\ budget > 0 /\ budget < 10000 => score.costEfficiency = Round(budget, 10)
          /\ budget >= 10000 => score.costEfficiency = 1000
          /\ score.costEfficiency >= 0
          /\ score.deliveryRate \in 0..1000
          /\ score.customerSatisfaction \in 0..1000
          /\ score.totalScore \in 0..1000]_vars

\* a turn was settled with a negative budget and scored costEfficiency 0 and a
\* positive total
C18_Witness ==
  /\ calls >= 1
  /\ gameState.budget < 0
  /\ gameState.history[Len(gameState.history)].budget = gameState.budget
  /\ gameState.score.costEfficiency = 0
  /\ gameState.score.totalScore > 0

\* C19: while pMedianOptimization runs and when it returns, the total cost of its
\* current solution (the sum over the colonies of the distance to the nearest
\* selected site times the colony's total demand) is not greater than the cost of
\* the initial solution greedyFacilityLocation(colonies, candidateSites, p, Infinity),
\* currentCost is that total cost, and no step of a pass and no end of a pass
\* raises currentCost.
C19_CostNeverIncreases ==
  [][optimizer'.pc \in {"pass", "returned"} =>
       LET colonies == optimizer'.colonies
           candidateSites == optimizer'.candidateSites
           distanceMatrix == calculateDistanceMatrix(colonies, candidateSites)
           initial == greedyFacilityLocation(colonies, candidateSites, optimizer'.p,
                                             Infinity)
           initialCost == calculateTotalCost(distanceMatrix, initial, colonies)
           finalCost == calculateTotalCost(distanceMatrix, optimizer'.currentSolution,
                                           colonies)
       IN /\ ~Less(initialCost, finalCost)
          /\ optimizer'.currentCost = finalCost
          /\ optimizer.pc = "pass" => ~Less(optimizer.currentCost, optimizer'.currentCost)]_vars

\* pMedianOptimization returned after a pass that accepted a substitution and a
\* further pass: a solution cheaper than the initial one
C19_Witness ==
  /\ optimizer.pc = "returned"
  /\ optimizer.iter >= 1
  /\ Len(optimizer.currentSolution) >= 1
  /\ LET distanceMatrix == calculateDistanceMatrix(optimizer.colonies,
                                                   optimizer.candidateSites)
         initial == greedyFacilityLocation(optimizer.colonies, optimizer.candidateSites,
                                           optimizer.p, Infinity)
     IN Less(optimizer.currentCost,
             calculateTotalCost(distanceMatrix, initial, optimizer.colonies))

\* C20: greedyFacilityLocation returns at most maxDepots site indices, each of them
\* an index of candidateSites, and no index twice.
C20_GreedyWithinLimit ==
  optimizer.pc = "greedy returned" =>
    LET selectedSites == optimizer.selectedSites
    IN /\ Len(selectedSites) <= optimizer.p
       /\ \A k \in 1..Len(selectedSites) :
            selectedSites[k] \in 0..(Len(optimizer.candidateSites) - 1)
       /\ \A j, k \in 1..Len(selectedSites) :
            j # k => selectedSites[j] # selectedSites[k]

\* greedyFacilityLocation returned maxDepots >= 2 sites although a further round
\* would have selected one more
C20_Witness ==
  /\ optimizer.pc = "greedy returned"
  /\ optimizer.p >= 2
  /\ Len(optimizer.selectedSites) = optimizer.p
  /\ Len(greedyFacilityLocation(optimizer.colonies, optimizer.candidateSites,
                                optimizer.p + 1, optimizer.maxDistance)) > optimizer.p

\* C21: for 1 <= p <= number of candidate sites and at least one colony, the initial
\* solution of pMedianOptimization has p sites and so has the solution it returns.
C21_ExactlyPSites ==
  (/\ optimizer.pc \in {"pass", "returned"}
   /\ 1 <= optimizer.p
   /\ optimizer.p <= Len(optimizer.candidateSites)
   /\ Len(optimizer.colonies) >= 1)
    => Len(optimizer.currentSolution) = optimizer.p

Bodies(state) == state.colonies \o state.depots

\* C25: in every state the currentAngle of every colony and depot is at least 0 and
\* below 360 degrees, and every advanceTurn replaces it by
\* (currentAngle + 30 * 360 / orbitalPeriod) mod 360.
C25_AngleNormalized ==
  /\ [](\A k \in 1..Len(Bodies(gameState)) :
          /\ Bodies(gameState)[k].currentAngle >= 0
          /\ Bodies(gameState)[k].currentAngle < 360 * 1000)
  /\ [][calls' = calls + 1 =>
          /\ Len(Bodies(gameState')) = Len(Bodies(gameState))
          /\ \A k \in 1..Len(Bodies(gameState)) :
               LET body == Bodies(gameState)[k]
               IN /\ body.orbitalPeriod > 0
                  /\ Bodies(gameState')[k].currentAngle =
                       (body.currentAngle + Round(30 * 360 * 1000, body.orbitalPeriod))
                         % (360 * 1000)]_vars

\* an advanceTurn took a colony and a depot past 360 degrees
C25_Witness ==
  /\ calls >= 1
  /\ Len(gameState.depots) >= 1
  /\ gameState.colonies[1].currentAngle < 30 * 1000
  /\ gameState.depots[1].currentAngle < 30 * 1000
  /\ gameState.colonies[1].currentAngle = gameState.depots[1].currentAngle

\* n is demand * multiplier rounded to an integer (multiplier in tenths); at a tie
\* either neighbour
IsRounded(n, demand, multiplier) ==
  Abs(10 * n - demand * multiplier) <= 5

\* C26: the state initializeGame(difficulty) returns, which a game has until its
\* first advanceTurn, buildDepot or createRoute: turn 0, month 1, epoch 0, no depots,
\* no routes, no history, not over and without a reason, the budget of the
\* difficulty, and each catalog colony with its demand scaled by the difficulty's
\* demandMultiplier and rounded, its inventory and satisfaction as in the catalog.
C26_InitialState ==
  (calls = 0 /\ ops = 0) =>
    LET diffSettings == difficultySettings[gameState.difficulty]
    IN /\ gameState.currentTurn = 0
       /\ gameState.month = 1
       /\ gameState.epoch = 0
       /\ gameState.depots = <<>>
       /\ gameState.routes = <<>>
       /\ gameState.history = <<>>
       /\ gameState.isGameOver = FALSE
       /\ gameState.gameOverReason = "undefined"
       /\ gameState.budget = diffSettings.initialBudget
       /\ Len(gameState.colonies) = NumColonies
       /\ \A i \in 1..Len(gameState.colonies) :
            /\ gameState.colonies[i].id = initialColonies[i].id
            /\ gameState.colonies[i].inventory = initialColonies[i].inventory
            /\ gameState.colonies[i].satisfaction = initialColonies[i].satisfaction
            /\ \A c \in Categories :
                 IsRounded(gameState.colonies[i].demand[c],
                           initialColonies[i].demand[c], diffSettings.demandMultiplier)
       /\ \A i \in 1..Len(initialColonies), c \in Categories :
            IsRounded(scaleDemands(initialColonies[i].demand,
                                   diffSettings.demandMultiplier)[c],
                      initialColonies[i].demand[c], diffSettings.demandMultiplier)

\* a new game of difficulty hard, whose demands are not those of the catalog
C26_Witness ==
  /\ calls = 0
  /\ ops = 0
  /\ gameState.difficulty = "hard"
  /\ gameState.colonies[1].demand # initialColonies[1].demand


\* C27: a game begun with initializeGame is over in every state advanceTurn
\* returns with currentTurn >= 120, and a player who goes on to the next turn
\* reaches the end of the game
C27_EndsByMaxTurns ==
  /\ [](calls >= 1 /\ gameState.currentTurn >= MAX_TURNS => gameState.isGameOver)
  /\ <>(gameState.isGameOver)

\* a supplied game that lasted until the turn limit ended it
C27_Witness ==
  /\ gameState.currentTurn = MAX_TURNS
  /\ gameState.gameOverReason = "max_turns"
  /\ Len(gameState.depots) > 0
  /\ Len(gameState.history) >= 100


\* colonies.every(c => c.satisfaction < 20) of the state
allColoniesLost(state) ==
  \A i \in 1..Len(state.colonies) : state.colonies[i].satisfaction < 20 * Scale

C29_VictoryOnly ==
  [][/\ gameState'.gameOverReason = "victory"
     /\ gameState.gameOverReason # "victory"
     => /\ calls' = calls + 1
        /\ ~gameState.isGameOver
        /\ gameState'.currentTurn >= 60
        /\ gameState'.currentTurn < 120
        /\ gameState'.score.totalScore >= 95 * 10
        /\ gameState'.score.customerSatisfaction >= 90 * 10
        /\ gameState'.budget > 5000
        /\ ~Bankrupt(gameState')
        /\ ~OutOfTurns(gameState')
        /\ ~AllLost(gameState')]_vars

\* a game saved at turn 59 was won by the advanceTurn that ended at turn 60
C29_Witness ==
  /\ calls = 1
  /\ gameState.currentTurn = 60
  /\ gameState.gameOverReason = "victory"
  /\ gameState.history[Len(gameState.history)].totalScore >= 95 * 10


\* cargo of category c on the routes of the state that its next advanceTurn
\* delivers to a colony: those in transit whose duration reaches zero
DeliveredNext(state, colonyId, c) ==
  SumSeq([k \in 1..Len(state.routes) |->
            IF /\ state.routes[k].status = "in_transit"
               /\ state.routes[k].duration - 1 <= 0
               /\ state.routes[k].to = colonyId
            THEN state.routes[k].cargo[c] ELSE 0])

\* C30: within one advanceTurn the colonies consume before the routes deliver:
\* each inventory it returns is max(0, old inventory - demand) plus the cargo of
\* the routes to that colony delivered in this turn, so arriving cargo is never
\* reduced by the demand of the turn it arrives in
C30_DecayBeforeDelivery ==
  [][AdvanceTurn =>
       \A i \in 1..Len(gameState.colonies), c \in Categories :
         LET old == StateOf(i).inventory[c] - StateOf(i).demand[c]
         IN gameState'.colonies[i].inventory[c]
              = (IF old > 0 THEN old ELSE 0) + DeliveredNext(gameState, StateOf(i).id, c)]_vars

\* a cargo smaller than a month's demand arrived at a colony whose stock had run
\* out, and the colony holds all of it after the turn
C30_Witness ==
  \E i \in 1..Len(gameState.colonies), c \in Categories :
    /\ calls >= 1
    /\ Arriving(StateOf(i).id, c, calls) > 0
    /\ Arriving(StateOf(i).id, c, calls) < StateOf(i).demand[c]
    /\ StateOf(i).inventory[c] = Arriving(StateOf(i).id, c, calls)
    /\ \A id \in 1..routeSeq : ledger[id].calls < calls


\* the state processRoutes is given within advanceTurn(state)
beforeRoutes(state) == consumeInventory(updateOrbitalPositions(advanceCalendar(state)))

\* positions in the route list of the routes that complete at a colony in the
\* processRoutes of the state
Completing(state, colonyId) ==
  {k \in 1..Len(state.routes) :
     /\ state.routes[k].status = "in_transit"
     /\ state.routes[k].duration - 1 <= 0
     /\ state.routes[k].to = colonyId}

\* the state with the routes at the positions of a permutation in its order
Reordered(state, order) ==
  [state EXCEPT !.routes = [k \in 1..Len(@) |->
                              IF k \in DOMAIN order THEN @[order[k]] ELSE @[k]]]

\* C31: when routes to one colony complete on the same advanceTurn, the colony's
\* inventory is the same for every order of those routes in the route list, and is
\* the inventory after consumption plus the sum of their cargoes
C31_OrderIndependent ==
  [][AdvanceTurn =>
       \A i \in 1..Len(gameState.colonies), c \in Categories :
         \A order \in Permutations(Completing(beforeRoutes(gameState), StateOf(i).id)) :
           LET after == processRoutes(Reordered(beforeRoutes(gameState), order))
           IN /\ after.colonies[i].inventory[c] = gameState'.colonies[i].inventory[c]
              /\ after.colonies[i].inventory[c]
                   = beforeRoutes(gameState).colonies[i].inventory[c]
                       + DeliveredNext(gameState, StateOf(i).id, c)]_vars

\* two routes with different cargoes were delivered to one colony by the same
\* advanceTurn
C31_Witness ==
  \E id1, id2 \in 1..routeSeq :
    /\ id1 < id2
    /\ calls >= 1
    /\ Due(id1) = calls
    /\ Due(id2) = calls
    /\ ledger[id1].route.to = ledger[id2].route.to
    /\ ledger[id1].route.to \in ColonyIds
    /\ ledger[id1].route.cargo # ledger[id2].route.cargo


CoveredBy(o, k) ==
  UNION {Within(calculateDistanceMatrix(o.colonies, o.candidateSites), o.colonies,
                o.selectedSites[j], o.maxDistance) : j \in 1..k}

\* the colonies a site would add to those the first k selected sites cover
Gain(o, k, siteIdx) ==
  Cardinality(Within(calculateDistanceMatrix(o.colonies, o.candidateSites), o.colonies,
                     siteIdx, o.maxDistance) \ CoveredBy(o, k))

\* the candidates not among the first k selected sites
Unselected(o, k) ==
  {siteIdx \in 0..(Len(o.candidateSites) - 1) :
     \A j \in 1..k : o.selectedSites[j] # siteIdx}

\* C33: every site greedyFacilityLocation returns was, in its round, the candidate
\* not yet selected that covers the most colonies not yet covered, the lowest
\* index among equals, and covered at least one; the rounds stop at maxDepots
\* sites, when every colony is covered or when no candidate adds coverage
C33_GreedyRounds ==
  optimizer.pc = "greedy returned" =>
    /\ \A k \in 1..Len(optimizer.selectedSites) :
         /\ optimizer.selectedSites[k] \in Unselected(optimizer, k - 1)
         /\ Gain(optimizer, k - 1, optimizer.selectedSites[k]) >= 1
         /\ \A siteIdx \in Unselected(optimizer, k - 1) :
              /\ Gain(optimizer, k - 1, siteIdx)
                   <= Gain(optimizer, k - 1, optimizer.selectedSites[k])
              /\ Gain(optimizer, k - 1, siteIdx)
                   = Gain(optimizer, k - 1, optimizer.selectedSites[k])
                   => optimizer.selectedSites[k] <= siteIdx
         /\ Cardinality(CoveredBy(optimizer, k - 1)) < Len(optimizer.colonies)
    /\ Len(optimizer.selectedSites) <= Max(0, optimizer.p)
    /\ Len(optimizer.selectedSites) < optimizer.p =>
         \/ Cardinality(CoveredBy(optimizer, Len(optimizer.selectedSites)))
              = Len(optimizer.colonies)
         \/ \A siteIdx \in Unselected(optimizer, Len(optimizer.selectedSites)) :
              Gain(optimizer, Len(optimizer.selectedSites), siteIdx) = 0

\* the first round took a site of higher index because it covered more, and the
\* second round took the lowest of several candidates that added equally many
C33_Witness ==
  /\ optimizer.pc = "greedy returned"
  /\ Len(optimizer.selectedSites) >= 2
  /\ optimizer.selectedSites[2] < optimizer.selectedSites[1]
  /\ \E siteIdx \in Unselected(optimizer, 2) :
       Gain(optimizer, 1, siteIdx) = Gain(optimizer, 1, optimizer.selectedSites[2])


\* no substitution of one selected site by a candidate outside the solution has a
\* total cost below currentCost
LocalOptimum(o) ==
  \A i \in 1..Len(o.currentSolution), newSite \in 0..(Len(o.candidateSites) - 1) :
    ~Includes(o.currentSolution, newSite) =>
      ~Less(calculateTotalCost(calculateDistanceMatrix(o.colonies, o.candidateSites),
                               [o.currentSolution EXCEPT ![i] = newSite], o.colonies),
            o.currentCost)

\* C34: pMedianOptimization makes at most maxIterations passes, each step of a
\* pass moves on through the finite loops over i and newSite, the solution always
\* has as many sites as the seed and no site twice, and a solution returned
\* because a pass accepted nothing is a 1-swap local optimum
C34_LocalOptimum ==
  /\ [](optimizer.pc \in {"pass", "returned"} =>
          /\ optimizer.iter <= Max(0, optimizer.maxIterations)
          /\ optimizer.i <= Len(optimizer.currentSolution)
          /\ optimizer.newSite < Max(1, Len(optimizer.candidateSites))
          /\ Len(optimizer.currentSolution)
               = Len(greedyFacilityLocation(optimizer.colonies, optimizer.candidateSites,
                                            optimizer.p, Infinity))
          /\ \A j, k \in 1..Len(optimizer.currentSolution) :
               j # k => optimizer.currentSolution[j] # optimizer.currentSolution[k])
  /\ [][optimizer.pc = "pass" /\ optimizer'.pc = "pass" =>
          \/ optimizer'.iter = optimizer.iter + 1
          \/ optimizer'.iter = optimizer.iter /\ optimizer'.i = optimizer.i + 1
          \/ /\ optimizer'.iter = optimizer.iter /\ optimizer'.i = optimizer.i
             /\ optimizer'.newSite = optimizer.newSite + 1]_vars
  /\ [][EndPass /\ optimizer'.pc = "returned" => LocalOptimum(optimizer')]_vars

\* a pass replaced the seed by a cheaper site, the next pass accepted nothing and
\* the solution was returned with passes to spare
C34_Witness ==
  /\ optimizer.pc = "returned"
  /\ optimizer.iter >= 1
  /\ optimizer.iter < optimizer.maxIterations
  /\ ~optimizer.improved
  /\ Len(optimizer.candidateSites) >= 3
  /\ optimizer.currentSolution
       # greedyFacilityLocation(optimizer.colonies, optimizer.candidateSites,
                                optimizer.p, Infinity)
  /\ LocalOptimum(optimizer)


\* route id is in transit when the n-th advanceTurn call settles the finances:
\* created before the call and delivered by a later one
Charged(id, n) == ledger[id].calls < n /\ n < Due(id)

\* C35: an advanceTurn charges the cost of exactly the routes created before it
\* and delivered after it, so a route of duration d is charged by the d - 1 calls
\* between its creation and its delivery, not by the call that delivers it, and a
\* route of duration 1 by none
C35_NotChargedOnDelivery ==
  [][AdvanceTurn =>
       /\ gameState'.expenses
            = Round(Upkeep(gameState')
                      + 10 * SumSeq([id \in 1..routeSeq |->
                                       IF Charged(id, calls') THEN ledger[id].route.cost
                                       ELSE 0]), 10)
       /\ \A id \in 1..routeSeq :
            Cardinality({n \in 1..calls' : Charged(id, n)})
              <= ledger[id].route.duration - 1]_vars

\* a route of duration 2 or more was charged on the calls before and is delivered
\* by this call, which charges the depots alone
C35_Witness ==
  \E id \in 1..routeSeq :
    /\ calls = Due(id)
    /\ ledger[id].route.duration >= 2
    /\ ledger[id].route.cost > 0
    /\ Cardinality({n \in 1..calls : Charged(id, n)}) = ledger[id].route.duration - 1
    /\ Len(gameState.routes) = 0
    /\ gameState.expenses = Round(Upkeep(gameState), 10)


\* C36: every route in the route list is in transit with a duration of at least
\* 1, from the id of a depot of the state to the id of a colony of the state, so
\* processRoutes finds the destination of every route it delivers
C36_RoutesWellFormed ==
  \A k \in 1..Len(gameState.routes) :
    /\ gameState.routes[k].status = "in_transit"
    /\ gameState.routes[k].duration >= 1
    /\ FindById(gameState.depots, gameState.routes[k].from, 1) # 0
    /\ FindById(gameState.colonies, gameState.routes[k].to, 1) # 0

\* advanceTurn has delivered one route and removed it from the list, and has
\* moved on another that is still in transit
C36_Witness ==
  /\ calls >= 1
  /\ \E id \in 1..routeSeq : id \notin ActiveIds(gameState) /\ Due(id) <= calls
  /\ \E k \in 1..Len(gameState.routes) :
       /\ gameState.routes[k].duration < ledger[gameState.routes[k].id].route.duration
       /\ gameState.routes[k].duration >= 1


\* the routes of a state to a colony
RoutesTo(state, colonyId) ==
  {k \in 1..Len(state.routes) : state.routes[k].to = colonyId}

\* C37: the autoSupply of every next turn adds one route to each colony that is
\* under-stocked when a depot exists, whatever routes to the colony are already
\* in transit, and adds none to the other colonies
C37_SupplyIgnoresTransit ==
  [][calls' = calls + 1 =>
       \A i \in 1..Len(gameState.colonies) :
         Cardinality(RoutesTo(gameState', StateOf(i).id))
           = Cardinality(RoutesTo(advanceTurn(gameState), StateOf(i).id))
               + (IF /\ needsSupply(advanceTurn(gameState).colonies[i])
                     /\ Len(gameState.depots) >= 1
                  THEN 1 ELSE 0)]_vars

\* two routes created by successive autoSupply calls are in transit to one
\* colony, and their cargo of a category together exceeds twice the demand
C37_Witness ==
  \E i \in 1..Len(gameState.colonies), c \in Categories :
    \E j, k \in RoutesTo(gameState, StateOf(i).id) :
      /\ j < k
      /\ ledger[gameState.routes[j].id].calls < ledger[gameState.routes[k].id].calls
      /\ gameState.routes[j].status = "in_transit"
      /\ gameState.routes[k].status = "in_transit"
      /\ gameState.routes[j].cargo[c] + gameState.routes[k].cargo[c]
           > 2 * StateOf(i).demand[c]


\* C38: in each difficulty the satisfaction an advanceTurn gives a colony lies
\* between the colony's old satisfaction and the target computed from the
\* inventory after the turn, both included: it moves toward the target and not
\* past it
C38_NoOvershoot ==
  [][AdvanceTurn =>
       \A i \in 1..Len(gameState.colonies) :
         /\ gameState'.colonies[i].satisfaction
              >= Min(StateOf(i).satisfaction, targetSatisfaction(gameState'.colonies[i]))
         /\ gameState'.colonies[i].satisfaction
              <= Max(StateOf(i).satisfaction, targetSatisfaction(gameState'.colonies[i]))]_vars

\* after a delivery one colony stands above the satisfaction it began with and
\* still below its target, while an unsupplied colony has fallen
C38_Witness ==
  /\ calls >= 2
  /\ \E i, j \in 1..Len(gameState.colonies) :
       /\ StateOf(i).satisfaction > initializeGame(gameState.difficulty).colonies[i].satisfaction
       /\ StateOf(i).satisfaction < targetSatisfaction(StateOf(i))
       /\ StateOf(j).satisfaction < initializeGame(gameState.difficulty).colonies[j].satisfaction
       /\ StateOf(j).satisfaction > targetSatisfaction(StateOf(j))


\* what advanceTurn leaves alone in the colonies and in the depots of a state
FixedOfColonies(state) ==
  [i \in 1..Len(state.colonies) |->
     [id |-> state.colonies[i].id,
      population |-> state.colonies[i].population,
      demand |-> state.colonies[i].demand]]
FixedOfDepots(state) ==
  [i \in 1..Len(state.depots) |->
     [id |-> state.depots[i].id,
      depotType |-> state.depots[i].depotType,
      constructionCost |-> state.depots[i].constructionCost,
      maintenanceCost |-> state.depots[i].maintenanceCost]]

\* C39: advanceTurn keeps the colonies and depots that exist, in their order,
\* with their demand, population, costs and type, and keeps the difficulty; the
\* depots change only by a buildDepot that returns, which appends one and pays
\* for it; the colonies are those of initializeGame in every state
C39_Frame ==
  /\ [](FixedOfColonies(gameState)
          = FixedOfColonies(initializeGame(gameState.difficulty)))
  /\ [][
       /\ gameState'.difficulty = gameState.difficulty
       /\ FixedOfColonies(gameState') = FixedOfColonies(gameState)
       /\ (calls' = calls + 1 => FixedOfDepots(gameState') = FixedOfDepots(gameState))
       /\ (FixedOfDepots(gameState') # FixedOfDepots(gameState) =>
            /\ thrown' = "none"
            /\ calls' = calls
            /\ Len(gameState'.depots) = Len(gameState.depots) + 1
            /\ SubSeq(gameState'.depots, 1, Len(gameState.depots)) = gameState.depots
            /\ gameState'.routes = gameState.routes
            /\ gameState'.budget = gameState.budget
                 - gameState'.depots[Len(gameState'.depots)].constructionCost)
     ]_vars

\* two turns or more were played, a depot was built and a route from it was
\* delivered
C39_Witness ==
  /\ calls >= 2
  /\ Len(gameState.depots) >= 1
  /\ \E id \in 1..routeSeq : Due(id) <= calls
  /\ \A i \in 1..Len(gameState.colonies) :
       StateOf(i).inventory # initializeGame(gameState.difficulty).colonies[i].inventory


\* C40: isGameOver is true exactly when gameOverReason is set; a step changes
\* either of them only by an advanceTurn of an open game, which closes it; and a
\* finished game is treated by buildDepot, createRoute and autoSupply as an open
\* one is: they return or throw on the grounds they have in an open game
C40_GameOverFields ==
  /\ [](gameState.isGameOver <=> gameState.gameOverReason # "undefined")
  /\ [](gameState.isGameOver =>
          /\ \A site \in Sites, depotType \in Types :
               buildDepot(gameState, newDepot(site, depotType)).thrown = "none"
                 <=> /\ gameState.budget >= depotSpecs[depotType].constructionCost
                     /\ FindById(gameState.depots, site.id, 1) = 0
          /\ \A fromId \in FromIds, toId \in ToIds, cargo \in Cargoes :
               createRoute(gameState, fromId, toId, cargo, routeSeq + 1).thrown = "none"
                 <=> /\ FindById(gameState.depots, fromId, 1) # 0
                     /\ FindById(gameState.colonies, toId, 1) # 0
          /\ autoSupply(gameState, routeSeq + 1).thrown = "none")
  /\ [][
       \/ /\ gameState'.isGameOver = gameState.isGameOver
          /\ gameState'.gameOverReason = gameState.gameOverReason
       \/ /\ calls' = calls + 1
          /\ ~gameState.isGameOver
          /\ gameState'.isGameOver
     ]_vars

\* a depot was built in a game that advanceTurn had finished
C40_Witness ==
  /\ gameState.isGameOver
  /\ calls >= 1
  /\ ops >= 1
  /\ Len(gameState.depots) >= 1
  /\ gameState.history[Len(gameState.history)].turn = gameState.currentTurn
  /\ gameState.history[1].turn < gameState.history[Len(gameState.history)].turn
  /\ gameState.budget
       = gameState.history[Len(gameState.history)].budget
           - gameState.depots[Len(gameState.depots)].constructionCost

====
